---- MODULE Spec2Model ----
(***************************************************************************)
(* A model of the BCS file reader of als.bcs: the data-file name decoder   *)
(* (data.py), the scan-file indexer and table reader (scans.py), the error *)
(* classes (errors.py), the sub-path remapper (find.py) and the data-file  *)
(* header parser (ingest.py).                                              *)
(*                                                                         *)
(* Text is a sequence of tokens.  A token is one character ("1", "_", "#") *)
(* or one word that the code only ever treats as a unit ("Scan", "File",   *)
(* "Flying ", "From File").  A file is a sequence of lines (without their  *)
(* line terminators) or the value Missing.  A Python call yields either    *)
(* Return(v) or Raise(e).                                                  *)
(***************************************************************************)
EXTENDS Integers, Sequences, FiniteSets, TLC

VARIABLES
    \* get_data_file_numbers (data.py)
    name,                \* the data file path handed to the decoder
    numbers,             \* its outcome, or Pending
    \* import_scan_file and the loops it runs (scans.py)
    scan_file,           \* the lines of the scan file
    file_number,         \* the one-based output file number asked for
    pc,                  \* position of the call
    linenum,             \* loop variable of the running loop
    consecutive_skipped_lines,
    header_linenum,      \* result of get_scan_header_line_number
    first_line,
    last_line,
    output_file_number,
    subscan_is_empty,
    result               \* outcome of the call, or Pending

scanvars == <<scan_file, file_number, pc, linenum, consecutive_skipped_lines,
              header_linenum, first_line, last_line, output_file_number,
              subscan_is_empty, result>>
pathvars == <<name, numbers>>

-----------------------------------------------------------------------------
(* Python values and outcomes *)

None == "None"
Pending == [kind |-> "pending"]
Missing == << <<"<missing>">> >>

Return(v) == [kind |-> "return", value |-> v]
Raise(e) == [kind |-> "raise", error |-> e]
Returned(r) == r.kind = "return"
Raised(r) == r.kind = "raise"
RaisedType(r, t) == r.kind = "raise" /\ r.error.type = t

\* An exception object: its class and what its message is built from.
Exc(t, a) == [type |-> t, args |-> a]

-----------------------------------------------------------------------------
(* str methods, on token sequences *)

Digits == {"0", "1", "2", "3", "4", "5", "6", "7", "8", "9"}
Whitespace == {" ", "\t"}

RECURSIVE LStrip(_)
LStrip(s) == IF s # <<>> /\ Head(s) \in Whitespace THEN LStrip(Tail(s)) ELSE s

RECURSIVE RStrip(_)
RStrip(s) ==
    IF s # <<>> /\ s[Len(s)] \in Whitespace
    THEN RStrip(SubSeq(s, 1, Len(s) - 1))
    ELSE s

Strip(s) == LStrip(RStrip(s))

\* s.startswith(t), t one token
StartsWith(s, t) == s # <<>> /\ s[1] = t

\* str.isdigit() of the first character of a line read from a file; the
\* first character of an empty line is its line terminator.
FirstIsDigit(s) == s # <<>> /\ s[1] \in Digits

\* s.lower().startswith("file")
LowerStartsWithFile(s) == s # <<>> /\ s[1] \in {"File", "file", "FILE"}

\* str.rsplit(sep, 1): <<s>> when sep does not occur, else <<left, right>>
LastIndexOf(s, sep) ==
    LET I == {i \in 1..Len(s) : s[i] = sep}
    IN  IF I = {} THEN 0 ELSE CHOOSE i \in I : \A j \in I : j <= i

\* the split at the first occurrence of sep instead of the last
SplitFirst1(s, sep) ==
    LET I == {i \in 1..Len(s) : s[i] = sep}
        i == IF I = {} THEN 0 ELSE CHOOSE i \in I : \A j \in I : i <= j
    IN  IF i = 0 THEN <<s>>
        ELSE <<SubSeq(s, 1, i - 1), SubSeq(s, i + 1, Len(s))>>

RSplit1(s, sep) ==
    LET i == LastIndexOf(s, sep)
    IN  IF i = 0 THEN <<s>>
        ELSE <<SubSeq(s, 1, i - 1), SubSeq(s, i + 1, Len(s))>>

\* str.split(sep): the fields between the occurrences of sep
RECURSIVE Split(_, _)
Split(s, sep) ==
    LET i == LastIndexOf(s, sep)
    IN  IF i = 0 THEN <<s>>
        ELSE Append(Split(SubSeq(s, 1, i - 1), sep), SubSeq(s, i + 1, Len(s)))

-----------------------------------------------------------------------------
(* Python objects whose class the code tests or misuses *)

PyNone == [t |-> "NoneType"]
PyInt(n) == [t |-> "int", i |-> n]
PyStr(s) == [t |-> "str", v |-> s]
PyEnum(m) == [t |-> "enum", m |-> m]
PyNaN == [t |-> "nan"]
PyArray(a) == [t |-> "ndarray", a |-> a]
PyList(a) == [t |-> "list", l |-> a]
PyFloat(x) == [t |-> "float", f |-> x]
PyBool(b) == [t |-> "bool", b |-> b]
\* a key a dict does not hold
Absent == [t |-> "absent"]

\* isinstance(x, str)
IsInstanceStr(x) == x.t = "str"

\* bool(x) of an optional int: None and 0 are false
Truthy(x) == x.t = "int" /\ x.i # 0

-----------------------------------------------------------------------------
(* errors.py *)

\* ScanFileNotFoundError.__init__: both paths are keyword-only and required;
\* the message holds both.
ScanFileNotFoundError(kwargs) ==
    IF {"scan_file_path", "data_file_path"} \subseteq DOMAIN kwargs
    THEN Return(Exc("ScanFileNotFoundError",
                    [scan_file_path |-> kwargs.scan_file_path,
                     data_file_path |-> kwargs.data_file_path]))
    ELSE Raise(Exc("TypeError", [what |-> "missing keyword-only argument"]))

\* ScanFileHeaderNotFoundError.__init__(self, *args, scan_file_path):
\* scan_file_path is keyword-only and has no default.
ScanFileHeaderNotFoundError(args, kwargs) ==
    IF "scan_file_path" \in DOMAIN kwargs
    THEN Return(Exc("ScanFileHeaderNotFoundError",
                    [scan_file_path |-> kwargs.scan_file_path]))
    ELSE Raise(Exc("TypeError", [what |-> "missing keyword-only argument"]))

\* ScanFileRowMessage._error_message and __init__: the parts of the message,
\* in the order the code joins them.  file_number and step_number are Python
\* objects (an int or None), description a str or an Enum member.
\*   `file_number > 0` raises TypeError when file_number is None;
\*   `description[-1]` raises TypeError when description is an Enum member.
IndexToken == <<"0", "1", "2", "3", "4", "5", "6", "7", "8", "9">>

\* str(n) of a positive int
RECURSIVE str(_)
str(n) == IF n < 10 THEN <<IndexToken[n + 1]>>
          ELSE str(n \div 10) \o <<IndexToken[(n % 10) + 1]>>

\* Lines 78-101 and 71-75: the text of the message
MessageText(scan_file_path, file_number_, step_number, description) ==
    <<"Invalid value or format found in input scan file: ", "'">>
        \o scan_file_path \o <<"'">>
        \o (IF file_number_ > 0
            THEN <<"; file output number: ">> \o str(file_number_) ELSE <<>>)
        \o (IF step_number > 0
            THEN <<"; step number ">> \o str(step_number) ELSE <<>>)
        \o <<".">>
        \o (IF description # <<>>
            THEN <<" ">> \o description
                 \o (IF description[Len(description)] # "." THEN <<".">> ELSE <<>>)
            ELSE <<>>)
        \o <<" Check for missing values, spaces instead of tabs, or extra header rows.">>

ScanFileRowMessage(scan_file_path, file_num, step_num, description) ==
    IF file_num.t # "int" \/ step_num.t # "int"
    THEN Raise(Exc("TypeError", [what |-> "'>' not supported for NoneType"]))
    ELSE IF description.t = "enum"
    THEN Raise(Exc("TypeError", [what |-> "Enum member is not subscriptable"]))
    ELSE Return(
        [scan_file_path |-> scan_file_path,
         file_number |-> IF file_num.i > 0 THEN file_num.i ELSE -1,
         step_number |-> IF step_num.i > 0 THEN step_num.i ELSE -1,
         description |-> description.v,
         period_added |-> description.v # <<>>
                          /\ description.v[Len(description.v)] # ".",
         hint |-> "Check for missing values, spaces instead of tabs, or extra header rows.",
         message |-> MessageText(scan_file_path, file_num.i, step_num.i,
                                 description.v)])

\* ScanFileRowError.__init__: the message builder's message
ScanFileRowError(scan_file_path, file_num, step_num, description) ==
    LET m == ScanFileRowMessage(scan_file_path, file_num, step_num, description)
    IN  IF Raised(m) THEN m ELSE Return(Exc("ScanFileRowError", m.value))

\* ScanFileRowWarning.__init__: the message builder's message
ScanFileRowWarning(scan_file_path, file_num, step_num, description) ==
    LET m == ScanFileRowMessage(scan_file_path, file_num, step_num, description)
    IN  IF Raised(m) THEN m ELSE Return(Exc("ScanFileRowWarning", m.value))

\* warn_or_raise(warning, raise_warning): the warning raised, or Return(None)
\* with the warning reported through warnings.warn.
warn_or_raise(warning, raise_warning) ==
    IF raise_warning THEN Raise(warning) ELSE Return(None)

-----------------------------------------------------------------------------
(* scans.py: get_scan_header_line_number *)

is_blank_or_comment(file_line) ==
    LET line_content == Strip(file_line)
    IN  line_content = <<>> \/ StartsWith(line_content, "#")

\* the header-detection condition of lines 92-96.  file_line[1] of a
\* one-character line is its line terminator, which is no digit.
IsDataLine(file_line) ==
    \/ FirstIsDigit(file_line)
    \/ LowerStartsWithFile(file_line)
    \/ (StartsWith(file_line, "-") /\ Len(file_line) >= 2 /\ file_line[2] \in Digits)

\* A variant of the loop body in which the count of skipped lines is never
\* set back.
HeaderLoopStepCountAll(skipped, n, file_line) ==
    IF is_blank_or_comment(file_line)
    THEN [skipped |-> skipped + 1, returned |-> FALSE, value |-> 0]
    ELSE IF IsDataLine(file_line)
    THEN [skipped |-> skipped, returned |-> TRUE, value |-> n - (skipped + 1)]
    ELSE [skipped |-> skipped, returned |-> FALSE, value |-> 0]

\* One iteration of the loop of lines 85-100 on line number n (zero-based):
\* the count of skipped lines, and the value returned if the loop returns.
HeaderLoopStep(skipped, n, file_line) ==
    IF is_blank_or_comment(file_line)
    THEN [skipped |-> skipped + 1, returned |-> FALSE, value |-> 0]
    ELSE IF IsDataLine(file_line)
    THEN [skipped |-> skipped, returned |-> TRUE, value |-> n - (skipped + 1)]
    ELSE [skipped |-> 0, returned |-> FALSE, value |-> 0]

\* Lines 102-105: the loop found nothing.  The exception is constructed with
\* the path as a positional argument.
HeaderNotFound(scan_file_path, raise_exception) ==
    IF raise_exception
    THEN LET e == ScanFileHeaderNotFoundError(<<scan_file_path>>, <<>>)
         IN  IF Raised(e) THEN e ELSE Raise(e.value)
    ELSE Return(-1)

RECURSIVE HeaderLoop(_, _, _, _, _)
HeaderLoop(lines, n, skipped, scan_file_path, raise_exception) ==
    IF n >= Len(lines)
    THEN HeaderNotFound(scan_file_path, raise_exception)
    ELSE LET s == HeaderLoopStep(skipped, n, lines[n + 1])
         IN  IF s.returned THEN Return(s.value)
             ELSE HeaderLoop(lines, n + 1, s.skipped, scan_file_path, raise_exception)

\* open(path, 'r') of a file that does not exist
FileNotFound(path) == Raise(Exc("FileNotFoundError", [path |-> path]))

get_scan_header_line_number(file, scan_file_path, raise_exception) ==
    IF file = Missing THEN FileNotFound(scan_file_path)
    ELSE HeaderLoop(file, 0, 0, scan_file_path, raise_exception)

-----------------------------------------------------------------------------
(* scans.py: get_scan_line_numbers *)

file_number_NOT_FOUND == <<-1, -1>>

\* Lines 127-134: the loop's variables before its first iteration.
\* k is the file number as passed (an int or None).
FileNumberOr1(k) == IF Truthy(k) THEN k.i ELSE 1

LineLoopInit(header, k) ==
    [first_line |-> IF FileNumberOr1(k) = 1 THEN header + 1 ELSE -1,
     last_line |-> IF FileNumberOr1(k) = 1 THEN header + 1 ELSE -1,
     output_file_number |-> 1,
     subscan_is_empty |-> TRUE,
     returned |-> FALSE]

\* A variant of the loop body whose blank-line branch does not ask whether
\* the sub-scan is still empty.
LineLoopStepAnyBlank(s, n, file_line, header, fn) ==
    IF n <= header THEN s
    ELSE IF LowerStartsWithFile(file_line)
    THEN LET ofn == IF s.subscan_is_empty THEN s.output_file_number
                    ELSE s.output_file_number + 1
             t == [s EXCEPT !.output_file_number = ofn, !.subscan_is_empty = TRUE]
         IN  IF ofn = fn
             THEN [t EXCEPT !.first_line = n + 1, !.last_line = n + 1]
             ELSE IF ofn > fn
             THEN [t EXCEPT !.returned = TRUE]
             ELSE t
    ELSE LET line_content == Strip(file_line)
         IN  IF line_content # <<>> /\ ~StartsWith(line_content, "#")
             THEN [s EXCEPT !.subscan_is_empty = FALSE,
                            !.last_line = IF s.output_file_number = fn THEN n ELSE @]
             ELSE IF line_content = <<>>
             THEN [s EXCEPT !.first_line = @ + 1, !.last_line = @ + 1]
             ELSE s

\* A variant of the loop body in which every marker line counts a sub-scan.
LineLoopStepEveryMarker(s, n, file_line, header, fn) ==
    IF n <= header THEN s
    ELSE IF LowerStartsWithFile(file_line)
    THEN LET ofn == s.output_file_number + 1
             t == [s EXCEPT !.output_file_number = ofn, !.subscan_is_empty = TRUE]
         IN  IF ofn = fn
             THEN [t EXCEPT !.first_line = n + 1, !.last_line = n + 1]
             ELSE IF ofn > fn
             THEN [t EXCEPT !.returned = TRUE]
             ELSE t
    ELSE LET line_content == Strip(file_line)
         IN  IF line_content # <<>> /\ ~StartsWith(line_content, "#")
             THEN [s EXCEPT !.subscan_is_empty = FALSE,
                            !.last_line = IF s.output_file_number = fn THEN n ELSE @]
             ELSE IF line_content = <<>> /\ s.subscan_is_empty
             THEN [s EXCEPT !.first_line = @ + 1, !.last_line = @ + 1]
             ELSE s

\* One iteration of the loop of lines 136-162 on line number n (zero-based);
\* fn is the file number after `file_number or 1`.
LineLoopStep(s, n, file_line, header, fn) ==
    IF n <= header THEN s
    ELSE IF LowerStartsWithFile(file_line)
    THEN LET ofn == IF s.subscan_is_empty THEN s.output_file_number
                    ELSE s.output_file_number + 1
             t == [s EXCEPT !.output_file_number = ofn, !.subscan_is_empty = TRUE]
         IN  IF ofn = fn
             THEN [t EXCEPT !.first_line = n + 1, !.last_line = n + 1]
             ELSE IF ofn > fn
             THEN [t EXCEPT !.returned = TRUE]
             ELSE t
    ELSE LET line_content == Strip(file_line)
         IN  IF line_content # <<>> /\ ~StartsWith(line_content, "#")
             THEN [s EXCEPT !.subscan_is_empty = FALSE,
                            !.last_line = IF s.output_file_number = fn THEN n ELSE @]
             ELSE IF line_content = <<>> /\ s.subscan_is_empty
             THEN [s EXCEPT !.first_line = @ + 1, !.last_line = @ + 1]
             ELSE s

\* Lines 163-166: the loop ran to the end of the file.
LineLoopEnd(s) ==
    IF s.subscan_is_empty THEN file_number_NOT_FOUND
    ELSE <<s.first_line, s.last_line>>

RECURSIVE LineLoop(_, _, _, _, _)
LineLoop(lines, n, s, header, fn) ==
    IF s.returned THEN <<s.first_line, s.last_line>>
    ELSE IF n >= Len(lines) THEN LineLoopEnd(s)
    ELSE LineLoop(lines, n + 1, LineLoopStep(s, n, lines[n + 1], header, fn),
                  header, fn)

\* Lines 122-125: only ScanFileHeaderNotFoundError is caught.
get_scan_line_numbers(file, scan_file_path, k) ==
    LET h == get_scan_header_line_number(file, scan_file_path, TRUE)
    IN  IF RaisedType(h, "ScanFileHeaderNotFoundError")
        THEN Return(file_number_NOT_FOUND)
        ELSE IF Raised(h) THEN h
        ELSE Return(LineLoop(file, 0, LineLoopInit(h.value, k), h.value,
                             FileNumberOr1(k)))

-----------------------------------------------------------------------------
(* scans.py: is_flying_scan *)

\* file.readline().rstrip() of the first line: a trailing "Flying " loses its
\* blank and is no longer the text 'Flying '.
RStripLine(file_line) ==
    LET r == RStrip(file_line)
    IN  IF r # <<>> /\ r[Len(r)] \in {"Flying ", "flying "}
        THEN [r EXCEPT ![Len(r)] = "Flying"]
        ELSE r

\* first_line.replace('flying ', 'Flying ')
ReplaceFlying(file_line) ==
    [i \in 1..Len(file_line) |->
        IF file_line[i] = "flying " THEN "Flying " ELSE file_line[i]]

\* Lines 329-367.  header_arg is the header_linenum argument (an int or
\* None); `header_linenum or get_scan_header_line_number(...)` calls the
\* function when the argument is None or 0.  The outcome holds the verdict
\* and, with return_motor, the name (a str or None).
is_flying_scan(file, scan_file_path, return_motor, header_arg) ==
    LET h == IF Truthy(header_arg) THEN Return(header_arg.i)
             ELSE get_scan_header_line_number(file, scan_file_path, TRUE)
    IN  IF Raised(h) THEN h
        ELSE IF file = Missing THEN FileNotFound(scan_file_path)
        ELSE LET first == IF file = <<>> THEN <<>> ELSE RStripLine(file[1])
                 parts1 == RSplit1(ReplaceFlying(first), "Flying ")
                 parts2 == RSplit1(parts1[Len(parts1)], "(")
             IN  IF h.value > 0 /\ Len(parts1) > 1 /\ ~return_motor
                 THEN Return([flying |-> TRUE, name |-> PyNone])
                 ELSE IF h.value > 0 /\ Len(parts1) > 1 /\ Len(parts2) > 1
                 THEN Return([flying |-> TRUE, name |-> PyStr(Strip(parts2[1]))])
                 ELSE Return([flying |-> FALSE, name |-> PyNone])

-----------------------------------------------------------------------------
(* scans.py: parse_scan_file_lines, with pandas.read_table as it is called *)

\* the name pandas gives the column at zero-based position i whose header
\* field is empty
Unnamed(i) == <<"Unnamed", IndexToken[i + 1]>>
IsUnnamed(col) == StartsWith(col, "Unnamed")

\* a field of a data row as a cell: an empty field is NaN
Cell(field) == IF field = <<>> THEN PyNaN ELSE PyStr(field)

Max(a, b) == IF a >= b THEN a ELSE b

\* the zero-based numbers of the first nrows lines after the header that
\* skiprows does not name
RECURSIVE DataLineNumbers(_, _, _, _)
DataLineNumbers(lines, n, skiprows, nrows) ==
    IF n >= Len(lines) \/ nrows <= 0 THEN <<>>
    ELSE IF n \in skiprows THEN DataLineNumbers(lines, n + 1, skiprows, nrows)
    ELSE <<n>> \o DataLineNumbers(lines, n + 1, skiprows, nrows - 1)

\* pandas.read_table(path, delimiter='\t', header=h, skip_blank_lines=False,
\* skiprows=..., nrows=...): the column names come from line h; a data row
\* may not hold more fields than the row before it (the first data row is
\* exempt, and its surplus fields become the index); shorter rows are padded.
read_table(lines, h, skiprows, nrows) ==
    IF h < 0
    THEN Raise(Exc("ValueError", [what |-> "negative header"]))
    ELSE
    LET names == Split(lines[h + 1], "\t")
        ncols == Len(names)
        nums == DataLineNumbers(lines, h + 1, skiprows, nrows)
        fields == [j \in 1..Len(nums) |-> Split(lines[nums[j] + 1], "\t")]
        width == IF nums = <<>> THEN ncols ELSE Max(ncols, Len(fields[1]))
        lead == width - ncols
        padded == [j \in 1..Len(nums) |->
                     [c \in 1..width |->
                        IF c <= Len(fields[j]) THEN Cell(fields[j][c]) ELSE PyNaN]]
    IN  IF \E j \in 1..Len(nums) : Len(fields[j]) > width
        THEN Raise(Exc("ParserError", [what |-> "too many fields"]))
        ELSE Return(
            [columns |-> [c \in 1..ncols |->
                            IF names[c] = <<>> THEN Unnamed(c - 1) ELSE names[c]],
             index |-> [j \in 1..Len(nums) |-> SubSeq(padded[j], 1, lead)],
             rows |-> [j \in 1..Len(nums) |-> SubSeq(padded[j], lead + 1, width)],
             implicit_index |-> lead > 0])

\* the members of a set of numbers, in ascending order
RECURSIVE Ascending(_)
Ascending(S) ==
    IF S = {} THEN <<>>
    ELSE LET m == CHOOSE x \in S : \A y \in S : x <= y
         IN  <<m>> \o Ascending(S \ {m})

\* is_comment(value) of lines 270-271 on str(cell)
is_comment(cell) == cell.t = "str" /\ StartsWith(Strip(cell.v), "#")

\* Lines 269-283: comment rows, empty rows and surplus unnamed columns go.
DropRowsAndColumns(df) ==
    LET keptrows == Ascending({j \in 1..Len(df.rows) :
                        /\ ~is_comment(df.rows[j][1])
                        /\ \E c \in 1..Len(df.columns) : df.rows[j][c] # PyNaN})
        unnamed == {c \in 1..Len(df.columns) : IsUnnamed(df.columns[c])}
        keptcols == Ascending({c \in 1..Len(df.columns) :
                        c \notin unnamed \/ \A d \in unnamed : c <= d})
    IN  [columns |-> [c \in 1..Len(keptcols) |-> df.columns[keptcols[c]]],
         index |-> [j \in 1..Len(keptrows) |-> df.index[keptrows[j]]],
         rows |-> [j \in 1..Len(keptrows) |->
                     [c \in 1..Len(keptcols) |-> df.rows[keptrows[j]][keptcols[c]]]],
         implicit_index |-> df.implicit_index,
         labels |-> keptrows]

\* Lines 291-302: the flying motor names the last column, or the column
\* names move one to the left and the index becomes the first column.
\* The index of a table read without surplus fields is the row numbers.
\* A variant that names the last column only when it is unnamed.
NameUnnamedColumn(df, flying_name) ==
    LET n == Len(df.columns)
    IN  IF IsUnnamed(df.columns[n])
        THEN [df EXCEPT !.columns = [@ EXCEPT ![n] = flying_name]]
        ELSE df

NameFlyingColumn(df, flying_name) ==
    LET n == Len(df.columns)
    IN  IF IsUnnamed(df.columns[n])
        THEN [df EXCEPT !.columns = [@ EXCEPT ![n] = flying_name]]
        ELSE [df EXCEPT
                !.columns = <<df.columns[1]>> \o SubSeq(df.columns, 2, n)
                            \o <<flying_name>>,
                !.rows = [j \in 1..Len(df.rows) |->
                            (IF df.implicit_index THEN df.index[j]
                             ELSE <<PyInt(df.labels[j] - 1)>>) \o df.rows[j]]]

parse_scan_file_lines(lines, scan_file_path, h, skiprows, nrows) ==
    LET try1 == read_table(lines, h, skiprows, nrows)
        first_linenum == IF skiprows = {} THEN h + 1
                         ELSE 1 + CHOOSE m \in skiprows : \A x \in skiprows : x <= m
        try2 == IF RaisedType(try1, "ParserError")
                THEN read_table(lines, h, skiprows \cup {first_linenum}, nrows - 1)
                ELSE try1
        fly == is_flying_scan(lines, scan_file_path, TRUE, PyInt(h))
    IN  IF Raised(try2) THEN try2
        ELSE IF Raised(fly) THEN fly
        ELSE LET df == DropRowsAndColumns(try2.value)
             IN  IF fly.value.name.t = "str" /\ fly.value.name.v # <<>>
                 THEN Return(NameFlyingColumn(df, fly.value.name.v))
                 ELSE Return(df)

-----------------------------------------------------------------------------
(* scans.py: import_scan_file *)

\* Lines 202-224.  k is the file number as passed (an int or None).
import_scan_file(file, scan_file_path, k) ==
    LET h == get_scan_header_line_number(file, scan_file_path, TRUE)
        r == get_scan_line_numbers(file, scan_file_path, k)
    IN  IF Raised(h) THEN h
        ELSE IF Raised(r) THEN r
        ELSE IF r.value[1] < 0 \/ r.value[2] < 0
        THEN Raise(Exc("IndexError", [what |-> "file number exceeds scan file outputs"]))
        ELSE parse_scan_file_lines(file, scan_file_path, h.value,
                                   (h.value + 1)..(r.value[1] - 1),
                                   1 + r.value[2] - r.value[1])

-----------------------------------------------------------------------------
(* data.py: get_data_file_numbers *)

DigitValue(d) ==
    CASE d = "0" -> 0 [] d = "1" -> 1 [] d = "2" -> 2 [] d = "3" -> 3
      [] d = "4" -> 4 [] d = "5" -> 5 [] d = "6" -> 6 [] d = "7" -> 7
      [] d = "8" -> 8 [] d = "9" -> 9

\* the text int() accepts once blanks and sign are off: digits, with single
\* underscores between digits
IsDigitGroup(s) ==
    /\ s # <<>>
    /\ \A i \in 1..Len(s) : s[i] \in Digits \cup {"_"}
    /\ s[1] \in Digits /\ s[Len(s)] \in Digits
    /\ \A i \in 1..(Len(s) - 1) : ~(s[i] = "_" /\ s[i + 1] = "_")

Unsigned(s) == IF s # <<>> /\ s[1] \in {"-", "+"} THEN Tail(s) ELSE s

RECURSIVE DigitsValue(_, _)
DigitsValue(s, acc) ==
    IF s = <<>> THEN acc
    ELSE IF Head(s) = "_" THEN DigitsValue(Tail(s), acc)
    ELSE DigitsValue(Tail(s), 10 * acc + DigitValue(Head(s)))

\* int(s) of a str
int(s) ==
    LET t == Strip(s)
    IN  IF IsDigitGroup(Unsigned(t))
        THEN Return((IF StartsWith(t, "-") THEN -1 ELSE 1) * DigitsValue(Unsigned(t), 0))
        ELSE Raise(Exc("ValueError", [what |-> "invalid literal for int()"]))

\* os.path.basename
basename(path) == SubSeq(path, LastIndexOf(path, "/") + 1, Len(path))

\* os.path.splitext(...)[0]: the last dot starts the extension unless only
\* dots come before it
splitext0(base) ==
    LET i == LastIndexOf(base, ".")
    IN  IF i = 0 \/ \A j \in 1..(i - 1) : base[j] = "."
        THEN base
        ELSE SubSeq(base, 1, i - 1)

Numbers(scan, file, repeat) == [scan |-> scan, file |-> file, repeat |-> repeat]

\* the value an int() outcome leaves in a variable
AsPyInt(r) == PyInt(r.value)

\* Lines 51-75.  A number is an int or None; int() may raise ValueError at
\* lines 58, 62, 71 and 73.
get_data_file_numbers(data_file_path) ==
    LET parts_ == RSplit1(splitext0(basename(data_file_path)), "_")
        file1 == IF Len(parts_) > 1 THEN int(parts_[2]) ELSE Return(0)
        partsR == RSplit1(parts_[1], "-")
        rep == IF Len(partsR) > 1 THEN int(partsR[2]) ELSE Return(0)
        partsS == RSplit1(partsR[1], "Scan")
        scan1 == IF Len(partsS) > 1 THEN int(partsS[2]) ELSE Return(0)
        partsB == IF Len(partsS) > 1 THEN RSplit1(partsS[2], " ") ELSE <<>>
        scan2 == IF Len(partsS) > 1 THEN int(partsB[1]) ELSE Return(0)
        file2 == IF Len(partsB) > 1 THEN int(partsB[2]) ELSE Return(0)
        file_ == IF Len(parts_) > 1 THEN AsPyInt(file1) ELSE PyNone
        repeat_ == IF Len(partsR) > 1 THEN AsPyInt(rep) ELSE PyNone
    IN  IF Raised(file1) THEN file1
        ELSE IF Raised(rep) THEN rep
        ELSE IF Len(partsS) = 1 THEN Return(Numbers(PyNone, file_, repeat_))
        ELSE IF Returned(scan1) THEN Return(Numbers(AsPyInt(scan1), file_, repeat_))
        ELSE IF Raised(scan2) THEN scan2
        ELSE IF Len(partsB) = 1 THEN Return(Numbers(AsPyInt(scan2), file_, repeat_))
        ELSE IF Raised(file2) THEN file2
        ELSE Return(Numbers(AsPyInt(scan2), AsPyInt(file2), repeat_))

-----------------------------------------------------------------------------
(* find.py: replace_subpath *)

IsPrefixAt(s, i, old) ==
    /\ i + Len(old) - 1 <= Len(s)
    /\ \A j \in 1..Len(old) : s[i + j - 1] = old[j]

\* str.replace(old, new) for a non-empty old: every occurrence, left to right
RECURSIVE ReplaceFrom(_, _, _, _)
ReplaceFrom(s, i, old, new) ==
    IF i > Len(s) THEN <<>>
    ELSE IF IsPrefixAt(s, i, old) THEN new \o ReplaceFrom(s, i + Len(old), old, new)
    ELSE <<s[i]>> \o ReplaceFrom(s, i + 1, old, new)

Replace(s, old, new) == ReplaceFrom(s, 1, old, new)

\* Lines 38-52: the pairs of the mapping, in items() order, one after another
RECURSIVE replace_subpath(_, _)
replace_subpath(file_path, subpath_replace_dict) ==
    IF subpath_replace_dict = <<>> THEN file_path
    ELSE replace_subpath(
            Replace(file_path, Head(subpath_replace_dict)[1],
                    Head(subpath_replace_dict)[2]),
            Tail(subpath_replace_dict))

-----------------------------------------------------------------------------
(* ingest.py: get_data_file_header *)

\* str.split(): the fields between runs of blanks
RECURSIVE SplitBlanks(_)
SplitBlanks(s) ==
    LET t == LStrip(s)
        I == {i \in 1..Len(t) : t[i] \in Whitespace}
        e == IF I = {} THEN Len(t) + 1 ELSE CHOOSE i \in I : \A j \in I : i <= j
    IN  IF t = <<>> THEN <<>>
        ELSE <<SubSeq(t, 1, e - 1)>> \o SplitBlanks(SubSeq(t, e, Len(t)))

\* float(s) of a str, for the numbers this model writes (digit groups)
float(s) ==
    LET r == int(s)
    IN  IF Raised(r)
        THEN Raise(Exc("ValueError", [what |-> "could not convert string to float"]))
        ELSE r

\* file_line.startswith(prefix) for the prefixes the parser tests: the
\* prefixes that the first token of a line starts with
PrefixesOf(token) ==
    CASE token = "Date: " -> {"Date: "}
      [] token = "Flying Scan" -> {"Flying Scan"}
      [] token = "Start, Stop, Increment" -> {"Start, Stop, Increment", "Start"}
      [] token = "From File" -> {"From File"}
      [] token = "Start: " -> {"Start"}
      [] token = "Stop: " -> {"Stop"}
      [] token = "Increment: " -> {"Increment"}
      [] token = "X Center: " -> {"X Center"}
      [] token = "Delay After Move (s): " -> {"Delay "}
      [] token = "Count Time (s): " -> {"Count "}
      [] token = "Scan Number: " -> {"Scan Number"}
      [] token = "Bi-directional: " -> {"Bi-directional"}
      [] token = "Stay at End: " -> {"Stay "}
      [] token = "Decription Length: " -> {"Decription "}
      [] token = "Decription " -> {"Decription "}
      [] OTHER -> {}

LineStartsWith(file_line, prefix) ==
    file_line # <<>> /\ prefix \in PrefixesOf(file_line[1])

\* file_line.strip().split(key, 1)[1]: IndexError when key does not occur.
\* The keys end with a blank, which strip() takes away when nothing follows
\* the key: the key then does not occur in the stripped line.
AfterKey(file_line, key) ==
    LET t == Strip(file_line)
        I == {i \in 1..Len(t) - 1 : t[i] = key}
        i == CHOOSE i \in I : \A j \in I : i <= j
    IN  IF I = {} THEN Raise(Exc("IndexError", [what |-> "list index out of range"]))
        ELSE Return(SubSeq(t, i + 1, Len(t)))

\* float(file_line.strip().split(key, 1)[1])
FloatAfterKey(file_line, key) ==
    LET v == AfterKey(file_line, key)
    IN  IF Raised(v) THEN v ELSE float(v.value)

\* The state of one call: the header_info dict, the four flags, is_time_scan,
\* the warnings reported so far and the outcome.
HeaderInit ==
    [header_info |->
        [scan_type |-> None,
         date |-> Absent,
         motors |-> PyList(<<>>),
         motor_first |-> <<>>,
         motor_last |-> <<>>,
         motor_step |-> <<>>,
         flying |-> FALSE,
         motor_velocity |-> Absent,
         pause_motor |-> Absent,
         scan_file_path |-> Absent,
         motor_values |-> Absent,
         memo |-> Absent,
         num_samples |-> Absent,
         count_sec |-> Absent,
         delay_sec |-> Absent,
         repeat_number |-> Absent,
         bidirect |-> Absent,
         stay_at_end |-> Absent,
         motor_header_linenum |-> Absent],
     get_motor_name |-> FALSE,
     get_pause_motor_name |-> FALSE,
     get_scan_file_path |-> FALSE,
     get_memo |-> FALSE,
     is_time_scan |-> FALSE,
     scan_file_path |-> Absent,
     warnings |-> <<>>,
     outcome |-> Pending]

Fail(s, r) == [s EXCEPT !.outcome = r]

\* Lines 292-345: handle_time_scan_numbers.  r is what the function returns
\* (None counts as false); a raise ends the call.
MEMO_LENGTH == 1
MEMO == 2
SAMPLES == 3
ACQUIRE == 4

\* A variant in which the delay is the difference as it is.
DelayUnbounded(period_sec, count_sec) == period_sec - count_sec

\* Line 340: delay_sec = max(0., period_sec - count_sec)
DelaySec(period_sec, count_sec) == Max(0, period_sec - count_sec)

handle_time_scan_numbers(s, n, file_line) ==
    LET str_values == SplitBlanks(Strip(file_line))
        short == Raise(Exc("ValueError", [what |-> "header line must start with integer"]))
        first == IF str_values = <<>> THEN short ELSE int(str_values[1])
        period == IF Len(str_values) < 5 THEN short ELSE float(str_values[2])
        count == IF Len(str_values) < 5 THEN short ELSE float(str_values[5])
    IN  IF n = MEMO_LENGTH
        THEN IF Raised(first) THEN [s |-> Fail(s, first), r |-> FALSE]
             ELSE IF first.value - 1 >= 0
             THEN [s |-> [s EXCEPT !.get_memo = TRUE], r |-> TRUE]
             ELSE [s |-> s, r |-> FALSE]
        ELSE IF n = MEMO
        THEN [s |-> [s EXCEPT !.header_info.memo = PyStr(RStrip(file_line)),
                              !.get_memo = FALSE],
              r |-> TRUE]
        ELSE IF n = SAMPLES
        THEN IF Raised(first) THEN [s |-> Fail(s, first), r |-> FALSE]
             ELSE [s |-> [s EXCEPT !.header_info.num_samples = PyInt(first.value)],
                   r |-> TRUE]
        ELSE IF n = ACQUIRE
        THEN IF Raised(period) THEN [s |-> Fail(s, period), r |-> FALSE]
             ELSE IF Raised(count) THEN [s |-> Fail(s, count), r |-> FALSE]
             ELSE [s |-> [s EXCEPT
                            !.header_info.count_sec = PyFloat(count.value),
                            !.header_info.delay_sec =
                                PyFloat(DelaySec(period.value, count.value))],
                   r |-> TRUE]
        ELSE [s |-> s, r |-> FALSE]

\* What opening and reading the scan file gives the parser: the outcome of
\* import_scan_file(path, file_number) and of is_flying_scan(path).
ScanFileRead(file, scan_file_path, k) ==
    [k |-> k,
     imp |-> import_scan_file(file, scan_file_path, k),
     fly |-> is_flying_scan(file, scan_file_path, FALSE, PyNone)]

NoRead == [k |-> PyNone, imp |-> Pending, fly |-> Pending]

\* motor_df.values.T: one row for each column, one entry for each step
Transpose(df) ==
    [c \in 1..Len(df.columns) |-> [j \in 1..Len(df.rows) |-> df.rows[j][c]]]

\* str.lstrip('flying'): leading characters out of {f, l, y, i, n, g} go
FlyingLetters == {"flying", "f", "l", "y", "i", "n", "g"}

RECURSIVE LStripIn(_, _)
LStripIn(s, chars) ==
    IF s # <<>> /\ Head(s) \in chars THEN LStripIn(Tail(s), chars) ELSE s

RECURSIVE RStripIn(_, _)
RStripIn(s, chars) ==
    IF s # <<>> /\ s[Len(s)] \in chars
    THEN RStripIn(SubSeq(s, 1, Len(s) - 1), chars)
    ELSE s

\* str.lower() on the words of a flying command
Lower(s) == [i \in 1..Len(s) |-> IF s[i] \in {"Flying", "FLYING"} THEN "flying" ELSE s[i]]

\* Lines 412-413: the text between the parentheses of a flying command
FlyingArguments(motor_value_str) ==
    RStripIn(LStripIn(Strip(LStripIn(Lower(Strip(motor_value_str)), FlyingLetters)),
                      {"("}),
             {")"})

\* header_info[key_names[i]].append(v)
AppendKey(hi, i, v) ==
    CASE i = 1 -> [hi EXCEPT !.motor_first = Append(@, v)]
      [] i = 2 -> [hi EXCEPT !.motor_last = Append(@, v)]
      [] i = 3 -> [hi EXCEPT !.motor_step = Append(@, v)]
      [] i = 4 -> [hi EXCEPT !.motor_velocity = PyList(Append(@.l, v))]

\* Lines 414-433: the values of one step; zip() stops after four.  float()
\* of a str raises ValueError, which `except TypeError` does not catch.
RECURSIVE FlyingValues(_, _, _)
FlyingValues(s, parts, i) ==
    IF i > Len(parts) \/ i > 4 THEN s
    ELSE LET v == float(parts[i])
         IN  IF Raised(v) THEN Fail(s, v)
             ELSE FlyingValues([s EXCEPT !.header_info = AppendKey(@, i, v.value)],
                               parts, i + 1)

\* Line 401: the test that sends a step to the warning
NotAFlyingCommand(flying_motor_values, motor_value_str) ==
    ~IsInstanceStr(flying_motor_values)

\* Lines 400-433: one step of the flying motor; step is zero-based
FlyingStep(s, flying_motor_values, step, args, scan_file_path, file_num) ==
    LET motor_value_str == flying_motor_values.a[step + 1]
        w == ScanFileRowWarning(scan_file_path, file_num, PyInt(step + 1),
                                PyEnum("FLYING_COMMAND"))
        r == warn_or_raise(w.value, args.raise_warning)
    IN  IF NotAFlyingCommand(flying_motor_values, motor_value_str)
        THEN IF Raised(w) THEN Fail(s, w)
             ELSE IF Raised(r) THEN Fail(s, r)
             ELSE [s EXCEPT !.warnings = Append(@, w.value)]
        ELSE IF ~IsInstanceStr(motor_value_str)
        THEN Fail(s, Raise(Exc("AttributeError", [what |-> "no attribute 'strip'"])))
        ELSE FlyingValues(s, Split(FlyingArguments(motor_value_str.v), ","), 1)

RECURSIVE FlyingLoop(_, _, _, _, _, _)
FlyingLoop(s, flying_motor_values, step, args, scan_file_path, file_num) ==
    IF Raised(s.outcome) \/ step >= Len(flying_motor_values.a) THEN s
    ELSE FlyingLoop(FlyingStep(s, flying_motor_values, step, args,
                               scan_file_path, file_num),
                    flying_motor_values, step + 1, args, scan_file_path, file_num)

\* A variant that leaves the flying motor's row in motor_values.
FlyingMotorUntrimmed(s, args, scan_file_path, file_num) ==
    LET mv == s.header_info.motor_values.a
        s1 == [s EXCEPT !.header_info.flying = TRUE,
                        !.header_info.motor_first = <<>>,
                        !.header_info.motor_last = <<>>,
                        !.header_info.motor_step = <<>>,
                        !.header_info.motor_velocity = PyList(<<>>)]
    IN  IF mv = <<>>
        THEN Fail(s1, Raise(Exc("IndexError", [what |-> "index -1 is out of bounds"])))
        ELSE FlyingLoop(s1, PyArray(mv[Len(mv)]), 0, args, scan_file_path, file_num)

\* Lines 388-434: the scan file's last column is the flying motor
FlyingMotor(s, args, scan_file_path, file_num) ==
    LET mv == s.header_info.motor_values.a
        s1 == [s EXCEPT !.header_info.flying = TRUE,
                        !.header_info.motor_first = <<>>,
                        !.header_info.motor_last = <<>>,
                        !.header_info.motor_step = <<>>,
                        !.header_info.motor_velocity = PyList(<<>>)]
        s2 == FlyingLoop(s1, PyArray(mv[Len(mv)]), 0, args, scan_file_path, file_num)
    IN  IF mv = <<>>
        THEN Fail(s1, Raise(Exc("IndexError", [what |-> "index -1 is out of bounds"])))
        ELSE IF Raised(s2.outcome) THEN s2
        ELSE [s2 EXCEPT !.header_info.motor_values = PyArray(SubSeq(mv, 1, Len(mv) - 1))]

\* A variant without the try statement: the FileNotFoundError escapes.
NotFoundUnconverted(scan_file_path, data_file_path) ==
    Raise(Exc("FileNotFoundError", [path |-> scan_file_path]))

\* Lines 381-384: FileNotFoundError becomes ScanFileNotFoundError
NotFound(scan_file_path, data_file_path) ==
    LET e == ScanFileNotFoundError([scan_file_path |-> scan_file_path,
                                    data_file_path |-> data_file_path])
    IN  IF Raised(e) THEN e ELSE Raise(e.value)

\* Lines 363-435: the line after the pause motor names the scan file.
\* read is what the scan file at the remapped path gives.
\* A variant in which the scan file is opened at the path as stored.
ScanFileAsStored(scan_file_path, args) == scan_file_path

\* ingest.py 376-377: the local scan_file_path becomes the remapped path,
\* which import_scan_file is called with at 381
ScanFileToOpen(scan_file_path, args) ==
    replace_subpath(scan_file_path, args.subpath_replace_dict)

ScanFilePathLine(s, file_line, args, read) ==
    LET scan_file_path == Replace(RStrip(file_line), <<"\\">>, <<"/">>)
        s0 == [s EXCEPT !.header_info.scan_file_path = PyStr(scan_file_path),
                        !.scan_file_path = PyStr(scan_file_path),
                        !.get_scan_file_path = FALSE]
        nums == get_data_file_numbers(args.data_file_path)
        remapped == ScanFileToOpen(scan_file_path, args)
        s1 == [s0 EXCEPT !.scan_file_path = PyStr(remapped)]
        s2 == [s1 EXCEPT !.header_info.motors = PyArray(read.imp.value.columns),
                         !.header_info.motor_values =
                             PyArray(Transpose(read.imp.value))]
    IN  IF Raised(nums) THEN Fail(s0, nums)
        ELSE IF RaisedType(read.imp, "FileNotFoundError")
        THEN Fail(s1, NotFound(remapped, args.data_file_path))
        ELSE IF Raised(read.imp) THEN Fail(s1, read.imp)
        ELSE IF Raised(read.fly) THEN Fail(s2, read.fly)
        ELSE IF read.fly.value.flying
        THEN FlyingMotor(s2, args, remapped, nums.value.file)
        ELSE s2

\* Lines 352-356: the line after a scan-type line names the motor;
\* an ndarray has no append
\* A variant that keeps the blanks around the motor name.
MotorNameLineUnstripped(s, file_line) ==
    IF s.header_info.motors.t = "list"
    THEN [s EXCEPT !.header_info.motors = PyList(Append(@.l, file_line)),
                   !.get_motor_name = FALSE]
    ELSE Fail(s, Raise(Exc("AttributeError", [what |-> "ndarray has no append"])))

\* Lines 352-356
MotorNameLine(s, file_line) ==
    IF s.header_info.motors.t = "list"
    THEN [s EXCEPT !.header_info.motors = PyList(Append(@.l, Strip(file_line))),
                   !.get_motor_name = FALSE]
    ELSE Fail(s, Raise(Exc("AttributeError", [what |-> "ndarray has no append"])))

\* A variant that appends the value to the list in place of replacing the list.
SetFloatListAppend(s, file_line, key, field) ==
    LET v == FloatAfterKey(file_line, key)
    IN  IF Raised(v) THEN Fail(s, v)
        ELSE CASE field = "motor_first" ->
                    [s EXCEPT !.header_info.motor_first = Append(@, v.value)]
               [] field = "motor_last" ->
                    [s EXCEPT !.header_info.motor_last = Append(@, v.value)]
               [] field = "motor_step" ->
                    [s EXCEPT !.header_info.motor_step = Append(@, v.value)]
               [] field = "motor_velocity" ->
                    [s EXCEPT !.header_info.motor_velocity = PyList(<<v.value>>)]

\* Lines 462-477: header_info[key] = [float(value)]
SetFloatList(s, file_line, key, field) ==
    LET v == FloatAfterKey(file_line, key)
    IN  IF Raised(v) THEN Fail(s, v)
        ELSE CASE field = "motor_first" -> [s EXCEPT !.header_info.motor_first = <<v.value>>]
               [] field = "motor_last" -> [s EXCEPT !.header_info.motor_last = <<v.value>>]
               [] field = "motor_step" -> [s EXCEPT !.header_info.motor_step = <<v.value>>]
               [] field = "motor_velocity" ->
                    [s EXCEPT !.header_info.motor_velocity = PyList(<<v.value>>)]

\* Lines 478-485: header_info[key] = float(value)
SetFloat(s, file_line, key, field) ==
    LET v == FloatAfterKey(file_line, key)
    IN  IF Raised(v) THEN Fail(s, v)
        ELSE CASE field = "delay_sec" -> [s EXCEPT !.header_info.delay_sec = PyFloat(v.value)]
               [] field = "count_sec" -> [s EXCEPT !.header_info.count_sec = PyFloat(v.value)]

\* datetime.strptime(date_str, "%m/%d/%Y"), for the dates this model writes
IsDate(date_str) == date_str = <<"11/02/2026">>

\* Lines 441-445
DateLine(s, file_line) ==
    LET v == AfterKey(file_line, "Date: ")
    IN  IF Raised(v) THEN Fail(s, v)
        ELSE IF ~IsDate(v.value)
        THEN Fail(s, Raise(Exc("ValueError", [what |-> "time data does not match format"])))
        ELSE [s EXCEPT !.header_info.date = PyStr(v.value)]

\* Lines 486-493: the repeat number, or the text of a summary file
ScanNumberLine(s, file_line) ==
    LET v == AfterKey(file_line, "Scan Number: ")
        i == int(v.value)
    IN  IF Raised(v) THEN Fail(s, v)
        ELSE [s EXCEPT !.header_info.repeat_number =
                           IF Raised(i) THEN PyStr(v.value) ELSE PyInt(i.value)]

\* Lines 494-498
BidirectLine(s, file_line) ==
    LET v == AfterKey(file_line, "Bi-directional: ")
    IN  IF Raised(v) THEN Fail(s, v)
        ELSE [s EXCEPT !.header_info.bidirect = PyBool(v.value = <<"Yes">>)]

\* Lines 499-502: bool(value_str) is true of every non-empty str
StayLine(s, file_line) ==
    LET v == AfterKey(file_line, "Stay at End: ")
    IN  IF Raised(v) THEN Fail(s, v)
        ELSE [s EXCEPT !.header_info.stay_at_end = PyBool(v.value # <<>>)]

\* Lines 503-507
DescriptionLine(s, file_line) ==
    LET v == AfterKey(file_line, "Description Length: ")
    IN  IF Raised(v) THEN Fail(s, v)
        ELSE [s EXCEPT !.get_memo = (v.value # <<>>)]

\* A variant in which a line of numbers anywhere after the first line starts
\* a Time scan.
DigitLineAnyLine(s, n, file_line) ==
    LET h == handle_time_scan_numbers(s, n, file_line)
        t == [s EXCEPT !.is_time_scan = TRUE, !.header_info.scan_type = "Time"]
        h1 == handle_time_scan_numbers(t, n, file_line)
    IN  IF s.is_time_scan /\ Raised(h.s.outcome) THEN h.s
        ELSE IF s.is_time_scan /\ h.r THEN h.s
        ELSE IF n >= 1 THEN h1.s
        ELSE [s EXCEPT !.header_info.motor_header_linenum = PyInt(n - 1),
                       !.outcome = Return("header_info")]

\* A variant in which the first line of data is recorded by its own index.
DigitLineAtLine(s, n, file_line) ==
    LET h == handle_time_scan_numbers(s, n, file_line)
        t == [s EXCEPT !.is_time_scan = TRUE, !.header_info.scan_type = "Time"]
        h1 == handle_time_scan_numbers(t, n, file_line)
    IN  IF s.is_time_scan /\ Raised(h.s.outcome) THEN h.s
        ELSE IF s.is_time_scan /\ h.r THEN h.s
        ELSE IF n = 1 THEN h1.s
        ELSE [s EXCEPT !.header_info.motor_header_linenum = PyInt(n),
                       !.outcome = Return("header_info")]

\* Lines 508-520: a line that starts with a digit; n is its line number
DigitLine(s, n, file_line) ==
    LET h == handle_time_scan_numbers(s, n, file_line)
        t == [s EXCEPT !.is_time_scan = TRUE, !.header_info.scan_type = "Time"]
        h1 == handle_time_scan_numbers(t, n, file_line)
    IN  IF s.is_time_scan /\ Raised(h.s.outcome) THEN h.s
        ELSE IF s.is_time_scan /\ h.r THEN h.s
        ELSE IF n = 1 THEN h1.s
        ELSE [s EXCEPT !.header_info.motor_header_linenum = PyInt(n - 1),
                       !.outcome = Return("header_info")]

\* A variant that goes on awaiting the pause motor while it awaits the
\* scan file path.
PauseMotorLineStillAwaited(s, file_line) ==
    [s EXCEPT !.header_info.pause_motor = PyStr(Strip(file_line)),
              !.get_scan_file_path = TRUE]

\* Lines 357-362: the line after `From File` names the pause motor, and the
\* line after it is the scan file path
PauseMotorLine(s, file_line) ==
    [s EXCEPT !.header_info.pause_motor = PyStr(Strip(file_line)),
              !.get_pause_motor_name = FALSE,
              !.get_scan_file_path = TRUE]

\* Lines 348-520: the body of the loop on line number n (zero-based)
HeaderLine(s, n, file_line, args, read) ==
    IF s.get_motor_name THEN MotorNameLine(s, file_line)
    ELSE IF s.get_pause_motor_name THEN PauseMotorLine(s, file_line)
    ELSE IF s.get_scan_file_path THEN ScanFilePathLine(s, file_line, args, read)
    ELSE IF s.get_memo
    THEN [s EXCEPT !.header_info.memo = PyStr(RStrip(file_line)),
                   !.get_memo = FALSE]
    ELSE IF LineStartsWith(file_line, "Date: ") THEN DateLine(s, file_line)
    ELSE IF LineStartsWith(file_line, "Flying Scan")
    THEN [s EXCEPT !.header_info.flying = TRUE,
                   !.header_info.scan_type = "Single Motor",
                   !.get_motor_name = TRUE]
    ELSE IF LineStartsWith(file_line, "Start, Stop, Increment")
    THEN [s EXCEPT !.header_info.scan_type = "Single Motor",
                   !.get_motor_name = TRUE]
    ELSE IF LineStartsWith(file_line, "From File")
    THEN [s EXCEPT !.header_info.scan_type = "Trajectory",
                   !.get_pause_motor_name = TRUE]
    ELSE IF LineStartsWith(file_line, "Start")
    THEN SetFloatList(s, file_line, "Start: ", "motor_first")
    ELSE IF LineStartsWith(file_line, "Stop")
    THEN SetFloatList(s, file_line, "Stop: ", "motor_last")
    ELSE IF LineStartsWith(file_line, "Increment")
    THEN SetFloatList(s, file_line, "Increment: ", "motor_step")
    ELSE IF LineStartsWith(file_line, "X Center")
    THEN SetFloatList(s, file_line, "X Center: ", "motor_velocity")
    ELSE IF LineStartsWith(file_line, "Delay ")
    THEN SetFloat(s, file_line, "Delay After Move (s): ", "delay_sec")
    ELSE IF LineStartsWith(file_line, "Count ")
    THEN SetFloat(s, file_line, "Count Time (s): ", "count_sec")
    ELSE IF LineStartsWith(file_line, "Scan Number") THEN ScanNumberLine(s, file_line)
    ELSE IF LineStartsWith(file_line, "Bi-directional") THEN BidirectLine(s, file_line)
    ELSE IF LineStartsWith(file_line, "Stay ") THEN StayLine(s, file_line)
    ELSE IF LineStartsWith(file_line, "Decription ") THEN DescriptionLine(s, file_line)
    ELSE IF FirstIsDigit(file_line) THEN DigitLine(s, n, file_line)
    ELSE s

\* Lines 347-522: the loop over the lines of the data file from line n on,
\* and the return after it
RECURSIVE DataFileLoop(_, _, _, _, _)
DataFileLoop(s, n, file, args, read) ==
    IF s.outcome # Pending THEN s
    ELSE IF n = Len(file) THEN [s EXCEPT !.outcome = Return("header_info")]
    ELSE DataFileLoop(HeaderLine(s, n, file[n + 1], args, read), n + 1, file,
                      args, read)

\* Lines 248-522: get_data_file_header on a data file of the given lines;
\* read is what the scan file gives if the header names one
get_data_file_header(file, args, read) ==
    DataFileLoop(HeaderInit, 0, file, args, read)

-----------------------------------------------------------------------------
(* The state of a call of get_data_file_header *)

VARIABLES
    data_file_path,      \* the arguments of the call
    subpath_replace_dict,
    raise_warning,
    data_linenum,        \* the number of data file lines read
    header_info,
    get_motor_name,
    get_pause_motor_name,
    get_scan_file_path,
    get_memo,
    is_time_scan,
    warnings,            \* the warnings reported so far
    outcome,             \* outcome of the call, or Pending
    scan_read,           \* what the scan file gave, once it was opened
    scan_file_exists,    \* whether a file exists at the remapped scan file path
    data_file,           \* the lines of the data file, when the file is given
    call,                \* 1 in the first call on the data file, 2 in the second
    previous,            \* what the first call gave, once the second has begun
    row,                 \* the arguments a row error and warning are built from
    local_scan_file_path,  \* the local scan_file_path of get_data_file_header
    handles              \* the files that are open

headervars == <<data_file_path, subpath_replace_dict, raise_warning,
                data_linenum, header_info, get_motor_name,
                get_pause_motor_name, get_scan_file_path, get_memo,
                is_time_scan, warnings, outcome, scan_read,
                scan_file_exists, data_file, call, previous, row,
                local_scan_file_path>>
vars == <<pathvars, scanvars, headervars, handles>>

\* the files the functions open, named by the function that opens them
HeaderLineNumberFile == "get_scan_header_line_number"
LineNumbersFile == "get_scan_line_numbers"
FlyingScanFile == "is_flying_scan"
DataFile == "get_data_file_header"

\* `with open(...) as f:` is entered: f is open
WithEnter(open_files, f) == open_files \cup {f}

\* A variant in which leaving the block leaves the file open.
WithLeave(open_files, f) == open_files

\* the block of `with open(...) as f:` is left, by its end, a return, a
\* break or an exception: f is closed
WithExit(open_files, f) == open_files \ {f}

\* a `with` block that is entered and left within one step
WithBlock(open_files, f) == WithExit(WithEnter(open_files, f), f)

\* scans.py 84, 133, 340: the blocks import_scan_file runs through
ScanFileBlocks(open_files) ==
    WithBlock(WithBlock(WithBlock(open_files, HeaderLineNumberFile),
                        LineNumbersFile),
              FlyingScanFile)

\* pandas.read_table opens the scan file by its path and closes it
ReadTableFile == "read_table"

\* `with` blocks run through in the given order, each entered and left
\* before the next is entered: the files open after the last, and the most
\* files that were open at once
RECURSIVE ThroughBlocks(_, _, _)
ThroughBlocks(open_files, blocks, most) ==
    IF blocks = <<>>
    THEN [open |-> open_files, most |-> Max(most, Cardinality(open_files))]
    ELSE LET entered == WithEnter(open_files, Head(blocks))
         IN  ThroughBlocks(WithExit(entered, Head(blocks)), Tail(blocks),
                           Max(most, Cardinality(entered)))

\* ingest.py 381-388, scans.py 202-224, 286: the openings of the scan file
\* while get_data_file_header handles the line that names it: none when the
\* file does not exist; get_scan_header_line_number alone when it raises;
\* then get_scan_line_numbers (which calls get_scan_header_line_number
\* first), read_table and is_flying_scan in parse_scan_file_lines, and
\* is_flying_scan (which calls get_scan_header_line_number first) at 388
ScanFileOpenings(read) ==
    IF read = NoRead \/ RaisedType(read.imp, "FileNotFoundError") THEN <<>>
    ELSE IF RaisedType(read.imp, "TypeError") THEN <<HeaderLineNumberFile>>
    ELSE IF RaisedType(read.imp, "IndexError")
    THEN <<HeaderLineNumberFile, HeaderLineNumberFile, LineNumbersFile>>
    ELSE IF Raised(read.imp)
    THEN <<HeaderLineNumberFile, HeaderLineNumberFile, LineNumbersFile,
           ReadTableFile>>
    ELSE <<HeaderLineNumberFile, HeaderLineNumberFile, LineNumbersFile,
           ReadTableFile, FlyingScanFile, HeaderLineNumberFile, FlyingScanFile>>

-----------------------------------------------------------------------------
(* import_scan_file, run loop iteration by loop iteration *)

MaxScanLines == 4
MaxFileNumber == 3
MaxFlyingRows == 2

\* blank, comment, column names, sub-scan marker in two letter cases, two
\* rows of positions
ScanLineSet == {<<>>, <<"#">>, <<"A">>, <<"File">>, <<"file">>, <<"1">>,
                <<"-", "1">>}

ScanFiles == UNION {[1..n -> ScanLineSet] : n \in 0..MaxScanLines}

ScanPath == <<"s">>

PathIdle == name = <<>> /\ numbers = Pending

HeaderIdle ==
    /\ data_file_path = <<>> /\ subpath_replace_dict = <<>>
    /\ raise_warning = FALSE /\ data_linenum = 0
    /\ header_info = HeaderInit.header_info
    /\ get_motor_name = FALSE /\ get_pause_motor_name = FALSE
    /\ get_scan_file_path = FALSE /\ get_memo = FALSE
    /\ is_time_scan = FALSE /\ warnings = <<>>
    /\ outcome = Pending /\ scan_read = NoRead
    /\ scan_file_exists = FALSE
    /\ data_file = <<>> /\ call = 1 /\ previous = Pending
    /\ row = <<>> /\ local_scan_file_path = Absent

\* Scan files that declare a flying motor on their first line: the
\* declaration, column names with a trailing tab, without it, or no column
\* names at all, and rows of a position and a flying cell
FlyingFiles ==
    {<<d>> \o c \o r :
        d \in {<<"Flying ", "M", "(">>, <<"flying ", "M", " ", "(">>},
        c \in {<<>>, << <<"A", "\t">> >>, << <<"A">> >>},
        r \in UNION {[1..n -> {<<>>, <<"File">>, <<"1", "\t", "x">>,
                               <<"1", "\t", "Flying", "(", "1", ")">>}] :
                        n \in 0..MaxFlyingRows}}

InitScan ==
    /\ scan_file \in ScanFiles \cup FlyingFiles
    /\ file_number \in 1..MaxFileNumber
    /\ pc = "header_loop"
    /\ linenum = 0
    /\ consecutive_skipped_lines = 0
    /\ header_linenum = -1
    /\ first_line = -1
    /\ last_line = -1
    /\ output_file_number = 1
    /\ subscan_is_empty = TRUE
    /\ result = Pending
    /\ PathIdle
    /\ HeaderIdle
    /\ handles = WithEnter({}, HeaderLineNumberFile)

\* scans.py 85-100: one line of get_scan_header_line_number (called at 202)
ScanHeaderLine ==
    /\ pc = "header_loop"
    /\ linenum < Len(scan_file)
    /\ LET s == HeaderLoopStep(consecutive_skipped_lines, linenum,
                               scan_file[linenum + 1])
       IN  /\ consecutive_skipped_lines' = s.skipped
           /\ header_linenum' = IF s.returned THEN s.value ELSE header_linenum
           /\ pc' = IF s.returned THEN "line_init" ELSE pc
           /\ linenum' = IF s.returned THEN linenum ELSE linenum + 1
           /\ handles' = IF s.returned
                         THEN WithExit(handles, HeaderLineNumberFile)
                         ELSE handles
    /\ UNCHANGED <<scan_file, file_number, first_line, last_line,
                   output_file_number, subscan_is_empty, result, pathvars, headervars>>

\* scans.py 102-105: no line matched
ScanHeaderEnd ==
    /\ pc = "header_loop"
    /\ linenum = Len(scan_file)
    /\ result' = HeaderNotFound(ScanPath, TRUE)
    /\ pc' = "done"
    /\ handles' = WithExit(handles, HeaderLineNumberFile)
    /\ UNCHANGED <<scan_file, file_number, linenum, consecutive_skipped_lines,
                   header_linenum, first_line, last_line, output_file_number,
                   subscan_is_empty, pathvars, headervars>>

\* A variant in which the file is read on from the position reached before.
EnumerateOn(position) == position

\* scans.py 133-136: `with open(...)` and enumerate() read a file from its
\* first line, whatever position an earlier reading of the file reached
Enumerate(position) == 0

\* scans.py 119-134: get_scan_line_numbers up to its loop (called at 203)
LineNumbersStart ==
    /\ pc = "line_init"
    /\ LET s == LineLoopInit(header_linenum, PyInt(file_number))
       IN  /\ first_line' = s.first_line
           /\ last_line' = s.last_line
           /\ output_file_number' = s.output_file_number
           /\ subscan_is_empty' = s.subscan_is_empty
    /\ linenum' = Enumerate(linenum)
    /\ handles' = WithEnter(handles, LineNumbersFile)
    /\ pc' = "line_loop"
    /\ UNCHANGED <<scan_file, file_number, consecutive_skipped_lines,
                   header_linenum, result, pathvars, headervars>>

\* scans.py 136-162: one line of get_scan_line_numbers
LineNumbersLine ==
    /\ pc = "line_loop"
    /\ linenum < Len(scan_file)
    /\ LET s == LineLoopStep([first_line |-> first_line, last_line |-> last_line,
                              output_file_number |-> output_file_number,
                              subscan_is_empty |-> subscan_is_empty,
                              returned |-> FALSE],
                             linenum, scan_file[linenum + 1], header_linenum,
                             FileNumberOr1(PyInt(file_number)))
       IN  /\ first_line' = s.first_line
           /\ last_line' = s.last_line
           /\ output_file_number' = s.output_file_number
           /\ subscan_is_empty' = s.subscan_is_empty
           /\ pc' = IF s.returned THEN "parse" ELSE pc
           /\ linenum' = IF s.returned THEN linenum ELSE linenum + 1
           /\ handles' = IF s.returned
                         THEN WithExit(handles, LineNumbersFile)
                         ELSE handles
    /\ UNCHANGED <<scan_file, file_number, consecutive_skipped_lines,
                   header_linenum, result, pathvars, headervars>>

\* scans.py 163-166: the end of the file
LineNumbersEnd ==
    /\ pc = "line_loop"
    /\ linenum = Len(scan_file)
    /\ LET r == LineLoopEnd([first_line |-> first_line, last_line |-> last_line,
                             output_file_number |-> output_file_number,
                             subscan_is_empty |-> subscan_is_empty,
                             returned |-> FALSE])
       IN  first_line' = r[1] /\ last_line' = r[2]
    /\ handles' = WithExit(handles, LineNumbersFile)
    /\ pc' = "parse"
    /\ UNCHANGED <<scan_file, file_number, linenum, consecutive_skipped_lines,
                   header_linenum, output_file_number, subscan_is_empty,
                   result, pathvars, headervars>>

\* scans.py 206-224: the range check and the table
ImportTable ==
    /\ pc = "parse"
    /\ result' =
         IF first_line < 0 \/ last_line < 0
         THEN Raise(Exc("IndexError", [what |-> "file number exceeds scan file outputs"]))
         ELSE parse_scan_file_lines(scan_file, ScanPath, header_linenum,
                                    (header_linenum + 1)..(first_line - 1),
                                    1 + last_line - first_line)
    /\ handles' = IF first_line < 0 \/ last_line < 0
                  THEN handles
                  ELSE WithBlock(handles, FlyingScanFile)
    /\ pc' = "done"
    /\ UNCHANGED <<scan_file, file_number, linenum, consecutive_skipped_lines,
                   header_linenum, first_line, last_line, output_file_number,
                   subscan_is_empty, pathvars, headervars>>

\* scans.py 108-166: get_scan_line_numbers called once more, with the same
\* scan file and file number
LineNumbersAgain ==
    /\ pc = "parse"
    /\ call = 1
    /\ previous' = <<first_line, last_line>>
    /\ call' = 2
    /\ pc' = "line_init"
    /\ UNCHANGED <<scan_file, file_number, linenum, consecutive_skipped_lines,
                   header_linenum, first_line, last_line, output_file_number,
                   subscan_is_empty, result, pathvars>>
    /\ UNCHANGED <<data_file_path, subpath_replace_dict, raise_warning,
                   data_linenum, header_info, get_motor_name,
                   get_pause_motor_name, get_scan_file_path, get_memo,
                   is_time_scan, warnings, outcome, scan_read,
                   scan_file_exists, data_file, row, handles,
                   local_scan_file_path>>

NextScan ==
    \/ LineNumbersAgain
    \/ ScanHeaderLine
    \/ ScanHeaderEnd
    \/ LineNumbersStart
    \/ LineNumbersLine
    \/ LineNumbersEnd
    \/ ImportTable

SpecScan == InitScan /\ [][NextScan]_vars

-----------------------------------------------------------------------------
(* get_scan_header_line_number and get_scan_line_numbers, called directly *)

\* Scan files with a first line that holds the text 'Flying ': with the
\* parenthesis after the motor name and without it
FlyingCallFiles ==
    {<<d, <<"A", "\t">>, <<"1", "\t", "x">> >> :
        d \in {<<"Flying ", "M", "(">>, <<"flying ", "M", " ", "(">>,
               <<"Flying ", "M">>, <<"Flying ", "Scan">>}}

\* scans.py 307-337: is_flying_scan(scan_file_path, file_number,
\* return_motor=...) with header_linenum left out.  A file_number that is
\* not None is reported as a DeprecationWarning once the header line is
\* known (warn_or_raise without raise_warning warns), and the call goes on
\* as without it.
IsFlyingScanCall(file, scan_file_path, file_number_arg, return_motor) ==
    [outcome |-> is_flying_scan(file, scan_file_path, return_motor, PyNone),
     warned |-> /\ file_number_arg # PyNone
                /\ Returned(get_scan_header_line_number(file, scan_file_path, TRUE))]

InitCalls ==
    /\ scan_file \in ScanFiles \cup FlyingCallFiles
    /\ file_number \in 1..MaxFileNumber
    /\ pc = "call"
    /\ linenum = 0
    /\ consecutive_skipped_lines = 0
    /\ header_linenum = -1
    /\ first_line = -1
    /\ last_line = -1
    /\ output_file_number = 1
    /\ subscan_is_empty = TRUE
    /\ result = Pending
    /\ PathIdle
    /\ HeaderIdle
    /\ handles = {}

\* scans.py 62-105: get_scan_header_line_number(scan_file_path)
CallHeaderLineNumber ==
    /\ pc = "call"
    /\ result' = get_scan_header_line_number(scan_file, ScanPath, TRUE)
    /\ pc' = "header_line_number"
    /\ handles' = WithBlock(handles, HeaderLineNumberFile)
    /\ UNCHANGED <<scan_file, file_number, linenum, consecutive_skipped_lines,
                   header_linenum, first_line, last_line, output_file_number,
                   subscan_is_empty, pathvars, headervars>>

\* scans.py 62-105: get_scan_header_line_number(scan_file_path,
\* raise_exception=False)
CallHeaderLineNumberQuiet ==
    /\ pc = "call"
    /\ result' = get_scan_header_line_number(scan_file, ScanPath, FALSE)
    /\ pc' = "header_line_number_quiet"
    /\ handles' = WithBlock(handles, HeaderLineNumberFile)
    /\ UNCHANGED <<scan_file, file_number, linenum, consecutive_skipped_lines,
                   header_linenum, first_line, last_line, output_file_number,
                   subscan_is_empty, pathvars, headervars>>

\* scans.py 108-166: get_scan_line_numbers(scan_file_path, file_number)
CallLineNumbers ==
    /\ pc = "call"
    /\ result' = get_scan_line_numbers(scan_file, ScanPath, PyInt(file_number))
    /\ pc' = "line_numbers"
    /\ handles' = WithBlock(handles, LineNumbersFile)
    /\ UNCHANGED <<scan_file, file_number, linenum, consecutive_skipped_lines,
                   header_linenum, first_line, last_line, output_file_number,
                   subscan_is_empty, pathvars, headervars>>

\* scans.py 307-367: is_flying_scan(scan_file_path[, file_number]) and
\* is_flying_scan(scan_file_path[, file_number], return_motor=True) on the
\* same scan file
CallIsFlyingScan ==
    /\ pc = "call"
    /\ \E plain_arg, motor_arg \in {PyNone, PyInt(file_number)} :
          result' = [plain |-> IsFlyingScanCall(scan_file, ScanPath, plain_arg, FALSE),
                     motor |-> IsFlyingScanCall(scan_file, ScanPath, motor_arg, TRUE)]
    /\ pc' = "is_flying_scan"
    /\ handles' = WithBlock(WithBlock(WithBlock(WithBlock(handles,
                       HeaderLineNumberFile), FlyingScanFile),
                       HeaderLineNumberFile), FlyingScanFile)
    /\ UNCHANGED <<scan_file, file_number, linenum, consecutive_skipped_lines,
                   header_linenum, first_line, last_line, output_file_number,
                   subscan_is_empty, pathvars, headervars>>

NextCalls ==
    \/ CallHeaderLineNumber
    \/ CallHeaderLineNumberQuiet
    \/ CallLineNumbers
    \/ CallIsFlyingScan

SpecCalls == InitCalls /\ [][NextCalls]_vars

-----------------------------------------------------------------------------
(* get_data_file_numbers applied to a data file path *)

MaxNameLen == 5

NameTokens == {"X", "Scan", "7", "-", "_", " ", "."}

\* a directory whose name holds a separator of the file-name convention
Directories == {<<>>, <<"d", "_", "7", "/">>}

ScanIdle ==
    /\ scan_file = <<>> /\ file_number = 1 /\ pc = "idle" /\ linenum = 0
    /\ consecutive_skipped_lines = 0 /\ header_linenum = -1
    /\ first_line = -1 /\ last_line = -1 /\ output_file_number = 1
    /\ subscan_is_empty = TRUE /\ result = Pending

\* names of the two conventions: <prefix>Scan<N>-<R>_<F>.<ext> and
\* <prefix>Scan<N> <F>.<ext>, the numbers with and without leading zeros
MaxDigits == 2

NumberDigits == {"0", "7"}

NumberTexts == UNION {[1..n -> NumberDigits] : n \in 1..MaxDigits}

Prefixes == {<<>>, <<"X">>, <<"X", "_">>, <<"a", "-", "b", " ">>, <<"Scan", "7", "_">>}

Extensions == {<<"t">>, <<"t", "_", "7">>}

InitPath ==
    /\ \/ \E d \in Directories, n \in 0..MaxNameLen :
             \E b \in [1..n -> NameTokens] : name = d \o b
       \/ \E d \in Directories, x \in Prefixes, e \in Extensions :
             \E N \in NumberTexts, R \in NumberTexts, F \in NumberTexts :
                name = d \o x \o <<"Scan">> \o N \o <<"-">> \o R \o <<"_">> \o F
                         \o <<".">> \o e
       \/ \E d \in Directories, x \in Prefixes, e \in Extensions :
             \E N \in NumberTexts, F \in NumberTexts \cup {<<>>} :
                name = d \o x \o <<"Scan">> \o N \o <<" ">> \o F \o <<".">> \o e
    /\ numbers = Pending
    /\ ScanIdle
    /\ HeaderIdle
    /\ handles = {}

\* data.py 42-75: one call
Decode ==
    /\ numbers = Pending
    /\ numbers' = get_data_file_numbers(name)
    /\ UNCHANGED <<name, scanvars, headervars, handles>>

NextPath == Decode

SpecPath == InitPath /\ [][NextPath]_vars

-----------------------------------------------------------------------------
(* get_data_file_header, run line by line *)

MaxHeaderLines == 4
MaxTrajLines == 2

\* data file names: no file number, file numbers 1 and 2, and a name whose
\* scan digits follow an underscore
DataFilePaths == {<<"X", "Scan", "7">>, <<"X", "Scan", "7", "_", "1">>,
                  <<"X", "Scan", "7", "_", "2">>, <<"X", "_", "Scan", "7">>}

\* the mappings: none, and one whose second pair rewrites what the first
\* pair wrote and writes what the first pair would rewrite
SubpathDicts == {<<>>, << <<<<"p", "/">>, <<"r", "/">>>>,
                         <<<<"r">>, <<"t", "/", "p">>>> >>}

\* lines of the data file: the scan-type declarations, the three range
\* lines, a line of text and a line of numbers
HeaderLineSet == {<<"Flying Scan">>, <<"Start, Stop, Increment">>,
                  <<"From File">>, <<"Start: ", "0">>, <<"Stop: ", "7">>,
                  <<"Increment: ", "1">>, <<"M">>, <<"1">>}

\* the line that follows the pause motor: a Windows path, and a path with
\* trailing blanks
ScanPathLines == {<<"p", "\\", "s">>, <<"q", "/", "s", " ">>}

\* A scan file: a flying declaration or none, the column names, and lines
\* out of a blank line, a sub-scan marker, and rows whose flying cell is a
\* command, a command with a word for a number, and no command
FlyingDeclaration == <<"Flying ", "M", "(">>
ColumnNames == <<"A", "\t">>
TrajLineSet == {<<>>, <<"File">>,
                <<"1", "\t", "Flying", "(", "1", ",", "7", ",", "1", ")">>,
                <<"1", "\t", "flying", "(", "1", ",", "x", ",", "1", ")">>,
                <<"1", "\t", "x">>}

TrajFiles == {d \o <<ColumnNames>> \o b :
                 d \in {<<>>, <<FlyingDeclaration>>},
                 b \in UNION {[1..n -> TrajLineSet] : n \in 0..MaxTrajLines}}

FileNumbers == {PyNone, PyInt(1), PyInt(2)}

\* every outcome of reading a scan file
TrajReads == {ScanFileRead(f, ScanPath, k) :
                 f \in TrajFiles \cup {Missing}, k \in FileNumbers}

\* ingest.py 248-285, 347: the arguments, the locals as the call sets them,
\* and the data file opened
Entry ==
    /\ data_file_path \in DataFilePaths
    /\ subpath_replace_dict \in SubpathDicts
    /\ raise_warning \in BOOLEAN
    /\ data_linenum = 0
    /\ header_info = HeaderInit.header_info
    /\ get_motor_name = FALSE /\ get_pause_motor_name = FALSE
    /\ get_scan_file_path = FALSE /\ get_memo = FALSE
    /\ is_time_scan = FALSE /\ warnings = <<>>
    /\ local_scan_file_path = Absent
    /\ outcome = Pending /\ scan_read = NoRead
    /\ scan_file_exists \in BOOLEAN
    /\ handles = WithEnter({}, DataFile)
    /\ PathIdle
    /\ ScanIdle

Init == Entry /\ data_file = <<>> /\ call = 1 /\ previous = Pending /\ row = <<>>

HeaderState ==
    [header_info |-> header_info,
     get_motor_name |-> get_motor_name,
     get_pause_motor_name |-> get_pause_motor_name,
     get_scan_file_path |-> get_scan_file_path,
     get_memo |-> get_memo,
     is_time_scan |-> is_time_scan,
     scan_file_path |-> local_scan_file_path,
     warnings |-> warnings,
     outcome |-> outcome]

Args ==
    [data_file_path |-> data_file_path,
     subpath_replace_dict |-> subpath_replace_dict,
     raise_warning |-> raise_warning]

Becomes(s) ==
    /\ header_info' = s.header_info
    /\ get_motor_name' = s.get_motor_name
    /\ get_pause_motor_name' = s.get_pause_motor_name
    /\ get_scan_file_path' = s.get_scan_file_path
    /\ get_memo' = s.get_memo
    /\ is_time_scan' = s.is_time_scan
    /\ local_scan_file_path' = s.scan_file_path
    /\ warnings' = s.warnings
    /\ outcome' = s.outcome

\* ingest.py 347-522: the data file stays open while the loop goes on, and
\* is closed when a line ends the loop or raises
AfterLine(open_files, line_outcome) ==
    IF line_outcome = Pending THEN open_files ELSE WithExit(open_files, DataFile)

\* the line being read is the one that names the scan file
AtScanFilePath ==
    ~get_motor_name /\ ~get_pause_motor_name /\ get_scan_file_path

\* ingest.py 348-520: one line of the data file, other than the scan file path
ReadLine ==
    /\ outcome = Pending
    /\ data_linenum < MaxHeaderLines
    /\ ~AtScanFilePath
    /\ \E file_line \in HeaderLineSet :
          Becomes(HeaderLine(HeaderState, data_linenum, file_line, Args, NoRead))
    /\ data_linenum' = data_linenum + 1
    /\ handles' = AfterLine(handles, outcome')
    /\ UNCHANGED <<data_file_path, subpath_replace_dict, raise_warning,
                   scan_read, scan_file_exists, data_file, call, previous,
                   row, pathvars, scanvars>>

\* ingest.py 363-435: the line that names the scan file; the scan file is
\* opened once the data file's numbers are decoded
ReadScanFilePath ==
    /\ outcome = Pending
    /\ data_linenum < MaxHeaderLines
    /\ AtScanFilePath
    /\ \E file_line \in ScanPathLines :
          LET nums == get_data_file_numbers(data_file_path)
          IN  IF Raised(nums)
              THEN /\ Becomes(HeaderLine(HeaderState, data_linenum, file_line,
                                         Args, NoRead))
                   /\ scan_read' = scan_read
              ELSE \E read \in TrajReads :
                      /\ read.k = nums.value.file
                      /\ scan_file_exists
                            <=> ~RaisedType(read.imp, "FileNotFoundError")
                      /\ Becomes(HeaderLine(HeaderState, data_linenum, file_line,
                                            Args, read))
                      /\ scan_read' = read
    /\ data_linenum' = data_linenum + 1
    /\ handles' = AfterLine(ScanFileBlocks(handles), outcome')
    /\ UNCHANGED <<data_file_path, subpath_replace_dict, raise_warning,
                   scan_file_exists, data_file, call, previous,
                   row, pathvars, scanvars>>

\* ingest.py 348, 522: the data file ends and the loop with it
EndOfFile ==
    /\ outcome = Pending
    /\ outcome' = Return("header_info")
    /\ handles' = WithExit(handles, DataFile)
    /\ UNCHANGED <<data_file_path, subpath_replace_dict, raise_warning,
                   data_linenum, header_info, get_motor_name,
                   get_pause_motor_name, get_scan_file_path, get_memo,
                   is_time_scan, warnings, scan_read, scan_file_exists,
                   local_scan_file_path,
                   data_file, call, previous,
                   row, pathvars, scanvars>>

Next ==
    \/ ReadLine
    \/ ReadScanFilePath
    \/ EndOfFile

Spec == Init /\ [][Next]_vars

-----------------------------------------------------------------------------
(* get_data_file_header, called twice on a data file whose lines are given *)

RangeValues == {<<"7">>, <<"-", "1", "2">>}

\* the three range lines, in every order
RangeOrders ==
    UNION {{f \in [1..3 -> {<<"Start: ">> \o a, <<"Stop: ">> \o b,
                             <<"Increment: ">> \o c}] :
               \A i, j \in 1..3 : f[i] = f[j] => i = j} :
           a \in RangeValues, b \in RangeValues, c \in RangeValues}

\* a single-motor header: the declaration, the motor name, the range lines
SingleMotorFiles ==
    {<< <<"Start, Stop, Increment">>, m >> \o r :
        m \in {<<"M">>, <<" ", "M", " ">>}, r \in RangeOrders}

\* a header that announces a memo, as the instrument spells it and as the
\* parser spells it, with a text, a keyword line or a line of numbers next
MemoFiles ==
    {d \o << l, m >> :
        d \in {<<>>, << <<"Date: ", "11/02/2026">> >>},
        l \in {<<"Description Length: ", "5">>, <<"Description Length: ", "0">>,
               <<"Decription ", "Description Length: ", "5">>,
               <<"Decription ", "Description Length: ", "0">>},
        m \in {<<"memo", " ">>, <<"Stop: ", "7">>, <<"1">>}}

\* a trajectory header, with and without a row of data after it
TrajectoryFiles ==
    {<< <<"From File">>, <<"P">>, p >> \o d :
        p \in ScanPathLines, d \in {<<>>, << <<"1">> >>}}

\* headers in which the line after a declaration is blank, a line of
\* numbers or another declaration, and a trajectory header that goes on with
\* the declaration of a single motor
CaptureFiles ==
    {<<t, l>> : t \in {<<"Start, Stop, Increment">>, <<"Flying Scan">>},
                l \in {<<>>, <<"1">>, <<"From File">>}}
    \cup {<< <<"From File">>, <<"1">>, p >> : p \in ScanPathLines}
    \cup {<< <<"From File">>, <<"P">>, <<"p", "\\", "s">>, t, <<"M">> >> :
              t \in {<<"Start, Stop, Increment">>, <<"Flying Scan">>}}

\* an acquire row whose period exceeds the count time, one whose count time
\* exceeds the period, and one of four numbers
AcquireRows == {<<"0", " ", "7", " ", "0", " ", "0", " ", "2">>,
                <<"0", " ", "2", " ", "0", " ", "0", " ", "7">>,
                <<"0", " ", "7", " ", "0", " ", "0">>}

\* the header of a Time scan: a first line, the length of the memo (of a
\* memo, of none, no integer), the memo (a text, a line of numbers), the
\* number of samples (an integer, none), the acquire row
TimeHeaders ==
    {<< <<"X">>, l, m, s, a >> :
        l \in {<<"5">>, <<"0">>, <<"1", "x">>},
        m \in {<<"memo">>, <<"7", " ", "x">>},
        s \in {<<"7">>, <<"7", "x">>},
        a \in AcquireRows}

\* the header as it is, and with a blank line before the number of samples
\* or before the acquire row; with and without a row of data after it
TimeFiles ==
    {SubSeq(h, 1, i) \o b \o SubSeq(h, i + 1, Len(h)) \o d :
        h \in TimeHeaders,
        i \in {3, 4}, b \in {<<>>, << <<>> >>},
        d \in {<<>>, << <<"1">> >>}}

\* a single-motor header whose motor name is a plain name or begins with
\* `Time` or `Frame`, then the row of column names (none, one that begins
\* with `Time`, one that begins with `Frame` with a line after it) and a row
\* of data
ColumnRowFiles ==
    {<< <<"Start, Stop, Increment">>, m >> \o c \o << <<"1", "\t", "5">> >> :
        m \in {<<"M">>, <<"Time">>, <<"Frame">>},
        c \in {<<>>, << <<"Time", "\t", "A">> >>, << <<"Frame">>, <<"A">> >>}}

\* the values of the two boolean header fields
BooleanValues == {"Yes", "No", "yes"}

\* a header of the two boolean fields
BooleanFiles ==
    {<< <<"Bi-directional: ", b>>, <<"Stay at End: ", e>> >> :
        b \in BooleanValues, e \in BooleanValues}

DataFiles ==
    SingleMotorFiles \cup MemoFiles \cup TrajectoryFiles \cup CaptureFiles
        \cup TimeFiles \cup ColumnRowFiles \cup BooleanFiles

\* data.py 107-113: the loop that looks for the header row, at the line of
\* index header_row.  A loop that ends without a break leaves the index of
\* the last line, and leaves header_row unbound when the file has no line.
RECURSIVE HeaderRowLoop(_, _, _)
HeaderRowLoop(file, header_row, isTimeScan) ==
    IF file = <<>>
    THEN Raise(Exc("UnboundLocalError", [what |-> "header_row"]))
    ELSE LET file_line == file[header_row + 1]
         IN  IF StartsWith(file_line, "Time") \/ StartsWith(file_line, "Frame")
             THEN Return(header_row)
             ELSE IF FirstIsDigit(file_line) /\ ~isTimeScan
             THEN Return(header_row - 1)
             ELSE IF header_row + 1 = Len(file) THEN Return(header_row)
             ELSE HeaderRowLoop(file, header_row + 1, isTimeScan)

\* data.py 100-119: the header row that read_data_file gives read_table;
\* a Time scan is told by the name of the file
read_data_file_header(file, path) ==
    HeaderRowLoop(file, 0, StartsWith(basename(path), "Time"))

InitFile ==
    Entry /\ data_file \in DataFiles /\ call = 1 /\ previous = Pending /\ row = <<>>

\* ingest.py 348-520: one line of the file, other than the scan file path
FileLine ==
    /\ outcome = Pending
    /\ data_linenum < Len(data_file)
    /\ ~AtScanFilePath
    /\ Becomes(HeaderLine(HeaderState, data_linenum, data_file[data_linenum + 1],
                          Args, NoRead))
    /\ data_linenum' = data_linenum + 1
    /\ handles' = AfterLine(handles, outcome')
    /\ UNCHANGED <<data_file_path, subpath_replace_dict, raise_warning,
                   scan_read, scan_file_exists, data_file, call, previous,
                   row, pathvars, scanvars>>

\* ingest.py 363-435: the line that names the scan file; the second call
\* finds the scan file as the first one did
FileScanPathLine ==
    /\ outcome = Pending
    /\ data_linenum < Len(data_file)
    /\ AtScanFilePath
    /\ LET nums == get_data_file_numbers(data_file_path)
           file_line == data_file[data_linenum + 1]
       IN  IF Raised(nums)
           THEN /\ Becomes(HeaderLine(HeaderState, data_linenum, file_line,
                                      Args, NoRead))
                /\ scan_read' = scan_read
           ELSE \E read \in TrajReads :
                   /\ read.k = nums.value.file
                   /\ scan_file_exists
                         <=> ~RaisedType(read.imp, "FileNotFoundError")
                   /\ call = 2 => read = scan_read
                   /\ Becomes(HeaderLine(HeaderState, data_linenum, file_line,
                                         Args, read))
                   /\ scan_read' = read
    /\ data_linenum' = data_linenum + 1
    /\ handles' = AfterLine(ScanFileBlocks(handles), outcome')
    /\ UNCHANGED <<data_file_path, subpath_replace_dict, raise_warning,
                   scan_file_exists, data_file, call, previous,
                   row, pathvars, scanvars>>

\* ingest.py 348, 522: the file ends and the loop with it
FileEnd ==
    /\ outcome = Pending
    /\ data_linenum = Len(data_file)
    /\ outcome' = Return("header_info")
    /\ handles' = WithExit(handles, DataFile)
    /\ UNCHANGED <<data_file_path, subpath_replace_dict, raise_warning,
                   data_linenum, header_info, get_motor_name,
                   get_pause_motor_name, get_scan_file_path, get_memo,
                   is_time_scan, warnings, scan_read, scan_file_exists,
                   local_scan_file_path,
                   data_file, call, previous, row, pathvars, scanvars>>

\* A variant in which the locals of the call before are kept.
EnterCallKeeping(s) == [s EXCEPT !.outcome = Pending]

\* ingest.py 271-285: the locals of a call are created by the call; nothing
\* of the state s that the call before left behind is read
EnterCall(s) == HeaderInit

\* ingest.py 248-285: the second call, with the arguments of the first
CallAgain ==
    /\ outcome # Pending
    /\ call = 1
    /\ previous' = [outcome |-> outcome, header_info |-> header_info,
                    warnings |-> warnings]
    /\ call' = 2
    /\ Becomes(EnterCall(HeaderState))
    /\ data_linenum' = 0
    /\ handles' = WithEnter(handles, DataFile)
    /\ UNCHANGED <<data_file_path, subpath_replace_dict, raise_warning,
                   scan_read, scan_file_exists, data_file, row, pathvars, scanvars>>

\* data.py 100-119: read_data_file on the same data file, after the
\* header was read
ReadDataFile ==
    /\ outcome # Pending
    /\ call = 2
    /\ result = Pending
    /\ result' = read_data_file_header(data_file, data_file_path)
    /\ handles' = IF Raised(result') THEN WithBlock(handles, DataFile)
                  ELSE WithBlock(WithBlock(handles, DataFile), ReadTableFile)
    /\ UNCHANGED <<scan_file, file_number, pc, linenum,
                   consecutive_skipped_lines, header_linenum, first_line,
                   last_line, output_file_number, subscan_is_empty,
                   pathvars, headervars>>

NextFile ==
    \/ FileLine
    \/ FileScanPathLine
    \/ FileEnd
    \/ CallAgain
    \/ ReadDataFile

SpecFile == InitFile /\ [][NextFile]_vars

-----------------------------------------------------------------------------
(* ScanFileRowError and ScanFileRowWarning, built from the same arguments *)

\* a number argument: left out, None, or an int
RowNumbers == {Absent, PyNone, PyInt(-1), PyInt(0), PyInt(2), PyInt(12)}

\* a description argument: left out, or a str without and with a period
RowDescriptions == {Absent, PyStr(<<>>), PyStr(<<"d">>), PyStr(<<"d", ".">>)}

\* errors.py 58-64: an argument left out takes its default
OrDefault(argument, default) == IF argument = Absent THEN default ELSE argument

InitRow ==
    /\ row \in [scan_file_path : {<<"s">>, <<"p", "/", "s">>},
                 file_number : RowNumbers, step_number : RowNumbers,
                 description : RowDescriptions]
    /\ scan_file = <<>> /\ file_number = 1 /\ pc = "call" /\ linenum = 0
    /\ consecutive_skipped_lines = 0 /\ header_linenum = -1
    /\ first_line = -1 /\ last_line = -1 /\ output_file_number = 1
    /\ subscan_is_empty = TRUE /\ result = Pending
    /\ PathIdle
    /\ data_file_path = <<>> /\ subpath_replace_dict = <<>>
    /\ raise_warning = FALSE /\ data_linenum = 0
    /\ header_info = HeaderInit.header_info
    /\ get_motor_name = FALSE /\ get_pause_motor_name = FALSE
    /\ get_scan_file_path = FALSE /\ get_memo = FALSE
    /\ is_time_scan = FALSE /\ warnings = <<>>
    /\ outcome = Pending /\ scan_read = NoRead
    /\ scan_file_exists = FALSE
    /\ data_file = <<>> /\ call = 1 /\ previous = Pending
    /\ handles = {} /\ local_scan_file_path = Absent

\* errors.py 41-52: ScanFileRowError(**row) and ScanFileRowWarning(**row)
Construct ==
    /\ pc = "call"
    /\ LET file_num == OrDefault(row.file_number, PyInt(-1))
           step_num == OrDefault(row.step_number, PyInt(-1))
           description == OrDefault(row.description, PyStr(<<>>))
       IN  result' =
             [error |-> ScanFileRowError(row.scan_file_path, file_num, step_num,
                                         description),
              warning |-> ScanFileRowWarning(row.scan_file_path, file_num,
                                             step_num, description)]
    /\ pc' = "constructed"
    /\ UNCHANGED <<scan_file, file_number, linenum, consecutive_skipped_lines,
                   header_linenum, first_line, last_line, output_file_number,
                   subscan_is_empty, pathvars, headervars, handles>>

NextRow == Construct

SpecRow == InitRow /\ [][NextRow]_vars

-----------------------------------------------------------------------------
(* Properties of the scan-file indexer (SpecScan) *)

\* The scan file as the indexer sees it, stated without its loop: the lines
\* after the header line are sub-scan markers, content lines, blank lines
\* and comments.  Positions are one-based; the line at position p has the
\* zero-based line number p - 1.
IsMarker(file_line) == LowerStartsWithFile(file_line)
IsContent(file_line) ==
    /\ ~IsMarker(file_line)
    /\ Strip(file_line) # <<>>
    /\ ~StartsWith(Strip(file_line), "#")
IsBlank(file_line) == ~IsMarker(file_line) /\ Strip(file_line) = <<>>

HasHeader(file) == \E p \in 1..Len(file) : IsDataLine(file[p])
AfterHeader(file, h) == {p \in 1..Len(file) : p - 1 > h}
NoMarkerBetween(file, p, q) == \A m \in p..q : ~IsMarker(file[m])

\* the content lines before p in p's own sub-scan
ContentBefore(file, h, p) ==
    {q \in AfterHeader(file, h) :
        q < p /\ IsContent(file[q]) /\ NoMarkerBetween(file, q, p)}

\* n: the number of sub-scans that hold a content line
NumSubscans(file, h) ==
    Cardinality({p \in AfterHeader(file, h) :
                    IsContent(file[p]) /\ ContentBefore(file, h, p) = {}})

\* the file ends in a sub-scan without content
EndsInEmptySubscan(file, h) ==
    \A p \in AfterHeader(file, h) :
        IsContent(file[p]) => \E m \in (p + 1)..Len(file) : IsMarker(file[m])

\* b: the blank lines met while their sub-scan holds no content yet
BlanksBeforeContent(file, h) ==
    Cardinality({p \in AfterHeader(file, h) :
                    IsBlank(file[p]) /\ ContentBefore(file, h, p) = {}})

Wrapped(k, n) == IF k % n = 0 THEN n ELSE k % n

\* the call has the line range in hand
RangeKnown == pc \in {"parse", "done"} /\ HasHeader(scan_file)

BeyondLast ==
    /\ RangeKnown
    /\ NumSubscans(scan_file, header_linenum) >= 1
    /\ file_number > NumSubscans(scan_file, header_linenum)

C2_HeaderNotFoundRaised ==
    (pc = "done" /\ ~HasHeader(scan_file)) =>
        RaisedType(result, "ScanFileHeaderNotFoundError")

\* C14: for every file number that has no corresponding non-empty sub-scan
\* in the scan file, whatever blank or comment lines the file holds,
\* get_scan_line_numbers returns first = -1, and import_scan_file raises
\* IndexError instead of reading rows.
C14_NotFoundWithoutSubscan ==
    (RangeKnown /\ file_number > NumSubscans(scan_file, header_linenum)) =>
        /\ first_line = -1
        /\ pc = "done" => RaisedType(result, "IndexError")

SubscanStarts(file, h) ==
    {p \in AfterHeader(file, h) :
        IsContent(file[p]) /\ ContentBefore(file, h, p) = {}}

\* the first content line of sub-scan k, k from 1 to n
FirstContent(file, h, k) ==
    CHOOSE p \in SubscanStarts(file, h) :
        Cardinality({q \in SubscanStarts(file, h) : q < p}) = k - 1

\* the last content line of the sub-scan that starts at content line p
LastContent(file, p) ==
    CHOOSE q \in p..Len(file) :
        /\ IsContent(file[q]) /\ NoMarkerBetween(file, p, q)
        /\ \A r \in (q + 1)..Len(file) :
              ~(IsContent(file[r]) /\ NoMarkerBetween(file, p, r))

\* the line that opens the sub-scan that starts at content line p: the last
\* marker before p, or the header line
Opener(file, h, p) ==
    LET M == {m \in AfterHeader(file, h) : m < p /\ IsMarker(file[m])}
    IN  IF M = {} THEN h + 1 ELSE CHOOSE m \in M : \A o \in M : o <= m

\* the call has the range of a sub-scan that the file holds
SubscanFound ==
    /\ RangeKnown
    /\ file_number <= NumSubscans(scan_file, header_linenum)

\* C27: for a scan file with n non-empty sub-scans and a file number k from
\* 1 to n, get_scan_line_numbers returns (first, last) with
\* header_line < first <= last; last is the last content line of sub-scan
\* k; first is the line after the marker (or header) that opens sub-scan k,
\* moved on by one for each blank line before the sub-scan's first content
\* line; no marker and no line of another sub-scan lies in first..last
C27_RangeOfSubscan ==
    SubscanFound =>
        LET fc == FirstContent(scan_file, header_linenum, file_number)
            lc == LastContent(scan_file, fc)
            op == Opener(scan_file, header_linenum, fc)
            blanks == {p \in (op + 1)..(fc - 1) : IsBlank(scan_file[p])}
        IN  /\ header_linenum < first_line /\ first_line <= last_line
            /\ last_line = lc - 1
            /\ first_line = op + Cardinality(blanks)
            /\ \A p \in (first_line + 1)..(last_line + 1) :
                  /\ ~IsMarker(scan_file[p])
                  /\ IsContent(scan_file[p]) => (fc <= p /\ p <= lc)

\* the range of the second of two sub-scans, whose rows follow a blank line
C27_Witness ==
    /\ SubscanFound
    /\ file_number = 2
    /\ first_line = last_line
    /\ IsBlank(scan_file[first_line])
    /\ IsMarker(scan_file[first_line - 1])

\* the lines that the loop of get_scan_line_numbers has gone through: all
\* lines at the end of the file, and the marker too at which it returned
LinesRead ==
    IF pc = "line_loop" \/ linenum = Len(scan_file) THEN linenum
    ELSE linenum + 1

\* the sub-scans with a content line that a marker among the lines read ends
SubscansEnded ==
    {p \in SubscanStarts(scan_file, header_linenum) :
        \E m \in (p + 1)..LinesRead : IsMarker(scan_file[m])}

\* C28: a marker line (`file` in any letter case) adds one to the counter of
\* sub-scans only when the sub-scan before it holds a content line: the
\* counter is one more than the number of sub-scans with content that a
\* marker has ended, so markers with only blank and comment lines between
\* them count once, a marker right after the header leaves the first
\* sub-scan at 1, and a last marker with no content after it opens no
\* sub-scan that a file number finds
C28_MarkersCountContent ==
    /\ pc \in {"line_loop", "parse"} =>
          output_file_number = 1 + Cardinality(SubscansEnded)
    /\ (RangeKnown /\ EndsInEmptySubscan(scan_file, header_linenum)
          /\ file_number > NumSubscans(scan_file, header_linenum)) =>
          <<first_line, last_line>> = file_number_NOT_FOUND

\* the second of two sub-scans was found after two markers in a row
C28_Witness ==
    /\ pc = "parse"
    /\ file_number = 2
    /\ output_file_number = 2
    /\ \E p \in AfterHeader(scan_file, header_linenum) :
          /\ p < Len(scan_file)
          /\ IsMarker(scan_file[p]) /\ IsMarker(scan_file[p + 1])
    /\ first_line = last_line /\ first_line = Len(scan_file) - 1

-----------------------------------------------------------------------------
(* Properties of the data-file name decoder (SpecPath) *)

\* the file name holds the word Scan with a digit right after it
HasScanId(path) ==
    LET base == basename(path)
    IN  \E p \in 1..(Len(base) - 1) : base[p] = "Scan" /\ base[p + 1] \in Digits

\* C10 as the specification states it: get_data_file_numbers fails only when
\* no numeric scan id can be extracted.  Whenever it returns, scan is an
\* integer; it does not raise for a name that holds a scan id; file and
\* repeat are None when the name holds no separator that introduces them.
C10_FailsOnlyWithoutScanId ==
    numbers # Pending =>
        /\ Returned(numbers) => numbers.value.scan.t = "int"
        /\ HasScanId(name) => Returned(numbers)
        /\ (Returned(numbers) /\ \A p \in 1..Len(basename(name)) :
                                    basename(name)[p] \notin {"_", " "})
              => numbers.value.file = PyNone
        /\ (Returned(numbers) /\ \A p \in 1..Len(basename(name)) :
                                    basename(name)[p] # "-")
              => numbers.value.repeat = PyNone

-----------------------------------------------------------------------------
(* Properties of the header parser (Spec) *)

\* the line that names the scan file has been read
PathLineRead == header_info.scan_file_path # Absent

RemappedPath ==
    replace_subpath(header_info.scan_file_path.v, subpath_replace_dict)

NotFoundRaised ==
    outcome = Raise(Exc("ScanFileNotFoundError",
                        [scan_file_path |-> RemappedPath,
                         data_file_path |-> data_file_path]))

C4_ScanTypeNeverOverwritten ==
    [][header_info.scan_type # None
          => header_info'.scan_type = header_info.scan_type]_vars

\* C4 as the code has it: once scan_type is set it is never cleared, but a
\* later `Flying Scan`, `Start, Stop, Increment` or `From File` line, read
\* while no capture is pending, sets it again: to Single Motor (and the
\* motor name is captured next) or to Trajectory (and the pause motor is
\* captured next).  A line of numbers never changes a type that is set.
C4_ScanTypeSetByEveryDeclaration ==
    [][header_info.scan_type # None =>
          /\ header_info'.scan_type # None
          /\ header_info'.scan_type # header_info.scan_type =>
                /\ ~get_motor_name /\ ~get_pause_motor_name
                /\ ~get_scan_file_path /\ ~get_memo
                /\ \/ header_info'.scan_type = "Single Motor" /\ get_motor_name'
                   \/ header_info'.scan_type = "Trajectory" /\ get_pause_motor_name']_vars

\* a header that declared a single-motor scan, named its motor, and then
\* declared a trajectory
C4_Witness ==
    /\ header_info.scan_type = "Trajectory"
    /\ header_info.motors.t = "list"
    /\ header_info.motors.l # <<>>

\* C5 as the specification states it: in every header_info returned,
\* motor_first, motor_last and motor_step have the same length.
C5_EqualLengths ==
    Returned(outcome) =>
        /\ Len(header_info.motor_first) = Len(header_info.motor_last)
        /\ Len(header_info.motor_last) = Len(header_info.motor_step)

\* one line of the header as the three lists see it: at most one of them
\* changes, to a list of one number; or a flying trajectory empties all three
RangeListStep ==
    LET f == header_info.motor_first
        l == header_info.motor_last
        t == header_info.motor_step
        ff == header_info'.motor_first
        ll == header_info'.motor_last
        tt == header_info'.motor_step
    IN  \/ ff = f /\ ll = l /\ tt = t
        \/ Len(ff) = 1 /\ ll = l /\ tt = t
        \/ ff = f /\ Len(ll) = 1 /\ tt = t
        \/ ff = f /\ ll = l /\ Len(tt) = 1
        \/ /\ ff = <<>> /\ ll = <<>> /\ tt = <<>>
           /\ scan_read' # NoRead /\ header_info'.flying

\* C5 as the code has it: the three lists are set one by one.  A `Start:`
\* line replaces motor_first by a list of one number and leaves the other
\* two alone, `Stop:` does so for motor_last and `Increment:` for
\* motor_step; a flying trajectory empties all three.  Each list therefore
\* holds at most one number, and the lengths differ whenever the header
\* holds some but not all of the three lines.
C5_ListsSetOneByOne ==
    /\ [](/\ Len(header_info.motor_first) <= 1
          /\ Len(header_info.motor_last) <= 1
          /\ Len(header_info.motor_step) <= 1)
    /\ [][RangeListStep]_vars

\* a header that was returned with a first position and nothing else
C5_Witness ==
    /\ Returned(outcome)
    /\ Len(header_info.motor_first) = 1
    /\ header_info.motor_last = <<>>
    /\ header_info.motor_step = <<>>

\* a header_info with motor_values was returned
TrajectoryReturned == Returned(outcome) /\ header_info.motor_values # Absent

\* the scan file that was read declares a flying motor
FlyingRead ==
    /\ scan_read # NoRead
    /\ Returned(scan_read.imp)
    /\ Returned(scan_read.fly)
    /\ scan_read.fly.value.flying

\* C6 as the specification states it: in every header_info returned with
\* motor_values, motor_values has as many rows as motors has entries.
C6_RowsEqualMotors ==
    TrajectoryReturned =>
        Len(header_info.motor_values.a) = Len(header_info.motors.a)

\* C6 as the code has it: in every header_info returned with motor_values,
\* motor_values has as many rows as motors has entries when the scan file
\* declares no flying motor, and one row fewer when it does: the flying
\* motor's row is removed from motor_values and its name stays in motors.
C6_RowsEqualMotorsButFlying ==
    TrajectoryReturned =>
        Len(header_info.motor_values.a) =
            Len(header_info.motors.a) - (IF FlyingRead THEN 1 ELSE 0)

\* a flying trajectory was returned: two motors, one row
C6_Witness ==
    /\ TrajectoryReturned
    /\ FlyingRead
    /\ Len(header_info.motors.a) = 2
    /\ Len(header_info.motor_values.a) = 1

\* The flying motor's cells, one for each step, as the table holds them
FlyingCells ==
    LET df == scan_read.imp.value
    IN  [j \in 1..Len(df.rows) |-> df.rows[j][Len(df.columns)]]

\* a cell that is a str of the form flying(...), in any letter case
IsFlyingCommand(cell) ==
    /\ cell.t = "str"
    /\ LET c == Lower(Strip(cell.v))
       IN  Len(c) >= 3 /\ c[1] = "flying" /\ c[2] = "(" /\ c[Len(c)] = ")"

\* the texts between the commas of a flying command
CommandFields(cell) == Split(FlyingArguments(cell.v), ",")

\* a flying command of three or four numbers
IsWellFormed(cell) ==
    /\ IsFlyingCommand(cell)
    /\ Len(CommandFields(cell)) \in {3, 4}
    /\ \A i \in 1..Len(CommandFields(cell)) : Returned(float(CommandFields(cell)[i]))

MalformedSteps == {j \in 1..Len(FlyingCells) : ~IsFlyingCommand(FlyingCells[j])}

\* the numbers at position i of the steps that are well formed, in step order
RECURSIVE FieldOfSteps(_, _)
FieldOfSteps(cells, i) ==
    IF cells = <<>> THEN <<>>
    ELSE (IF IsWellFormed(Head(cells))
          THEN <<float(CommandFields(Head(cells))[i]).value>>
          ELSE <<>>) \o FieldOfSteps(Tail(cells), i)

\* C7 as the specification states it: when the scan file declares a flying
\* motor and a step's cell is no flying command, strict mode raises one
\* ScanFileRowWarning that carries the step's one-based number; non-strict
\* mode reports one such warning for the step, does not fail, and parses
\* every well-formed step into motor_first, motor_last and motor_step.
C7_MalformedStepReported ==
    (FlyingRead /\ MalformedSteps # {}) =>
        IF raise_warning
        THEN /\ RaisedType(outcome, "ScanFileRowWarning")
             /\ outcome.error.args.step_number \in MalformedSteps
             /\ \A j \in MalformedSteps : outcome.error.args.step_number <= j
        ELSE /\ ~Raised(outcome)
             /\ Len(warnings) = Cardinality(MalformedSteps)
             /\ \A j \in MalformedSteps :
                    \E w \in 1..Len(warnings) : warnings[w].args.step_number = j
             /\ header_info.motor_first = FieldOfSteps(FlyingCells, 1)
             /\ header_info.motor_last = FieldOfSteps(FlyingCells, 2)
             /\ header_info.motor_step = FieldOfSteps(FlyingCells, 3)

\* C8 as the specification states it: when the scan file declares a flying
\* motor and every step's cell is a well-formed flying command, the call
\* does not fail and reports nothing; flying is true, motor_first,
\* motor_last and motor_step hold one number for each step in step order,
\* and the flying motor's row is gone from motor_values.
C8_WellFormedStepsParsed ==
    (/\ FlyingRead
     /\ FlyingCells # <<>>
     /\ \A j \in 1..Len(FlyingCells) : IsWellFormed(FlyingCells[j])) =>
        /\ ~Raised(outcome)
        /\ warnings = <<>>
        /\ header_info.flying
        /\ header_info.motor_first = FieldOfSteps(FlyingCells, 1)
        /\ header_info.motor_last = FieldOfSteps(FlyingCells, 2)
        /\ header_info.motor_step = FieldOfSteps(FlyingCells, 3)
        /\ Len(header_info.motor_values.a) = Len(scan_read.imp.value.columns) - 1

\* the steps whose flying command holds a text that is no number
UnconvertibleSteps ==
    {j \in 1..Len(FlyingCells) :
        /\ IsFlyingCommand(FlyingCells[j])
        /\ \E i \in 1..Len(CommandFields(FlyingCells[j])) :
              Raised(float(CommandFields(FlyingCells[j])[i]))}

\* C9 as the specification states it: when a value of a flying command is
\* no number, strict mode raises a row-level error; non-strict mode reports
\* a ScanFileRowWarning that carries the step's one-based number and does
\* not fail.  No other exception escapes.
C9_UnconvertibleValueReported ==
    (FlyingRead /\ MalformedSteps = {} /\ UnconvertibleSteps # {}) =>
        IF raise_warning
        THEN /\ Raised(outcome)
             /\ outcome.error.type \in {"ScanFileRowWarning", "ScanFileRowError"}
             /\ outcome.error.args.step_number \in UnconvertibleSteps
        ELSE /\ ~Raised(outcome)
             /\ \A j \in UnconvertibleSteps :
                    \E w \in 1..Len(warnings) : warnings[w].args.step_number = j

-----------------------------------------------------------------------------
(* Properties of the name decoder on names of the conventions (SpecPath) *)

\* the decimal value of a string of digits
RECURSIVE Decimal(_)
Decimal(s) ==
    IF s = <<>> THEN 0
    ELSE 10 * Decimal(SubSeq(s, 1, Len(s) - 1)) + DigitValue(s[Len(s)])

AllDigits(s, a, b) == a <= b /\ \A i \in a..b : s[i] \in Digits

\* the positions <<s, h, u, d>> of `Scan`, `-`, `_` and `.` at which the
\* basename reads <prefix>Scan<N>-<R>_<F>.<ext>, the extension free of dots
FullForms(base) ==
    UNION {UNION {UNION {
        {<<s, h, u, d>> :
            s \in {s \in 1..(h - 1) : base[s] = "Scan" /\ AllDigits(base, s + 1, h - 1)}} :
            h \in {h \in 1..(u - 1) : base[h] = "-" /\ AllDigits(base, h + 1, u - 1)}} :
            u \in {u \in 1..(d - 1) : base[u] = "_" /\ AllDigits(base, u + 1, d - 1)}} :
            d \in {d \in 1..(Len(base) - 1) :
                      /\ base[d] = "."
                      /\ \A i \in (d + 1)..Len(base) : base[i] # "."}}

\* C11: for every path whose basename reads <prefix>Scan<N>-<R>_<F>.<ext>,
\* N, R and F non-empty strings of digits, whatever the prefix and the
\* directory, get_data_file_numbers returns scan = int(N), file = int(F) and
\* repeat = int(R), leading zeros ignored.
C11_FullNameDecoded ==
    numbers # Pending =>
        \A q \in FullForms(basename(name)) :
            LET base == basename(name)
            IN  numbers = Return(Numbers(
                    PyInt(Decimal(SubSeq(base, q[1] + 1, q[2] - 1))),
                    PyInt(Decimal(SubSeq(base, q[3] + 1, q[4] - 1))),
                    PyInt(Decimal(SubSeq(base, q[2] + 1, q[3] - 1)))))

\* a name in a directory, with a prefix that holds a separator and with
\* numbers that have leading zeros, has been decoded
C11_Witness ==
    /\ numbers # Pending
    /\ Len(basename(name)) < Len(name)
    /\ \E q \in FullForms(basename(name)) :
          /\ \E i \in 1..(q[1] - 1) : basename(name)[i] \in {"_", "-"}
          /\ basename(name)[q[1] + 1] = "0" /\ q[2] > q[1] + 2
          /\ basename(name)[q[3] + 1] = "0" /\ q[4] > q[3] + 2
          /\ numbers.value.scan = PyInt(7) /\ numbers.value.file = PyInt(7)

\* the last `Scan` of the basename, 0 when there is none
LastScan(base) == LastIndexOf(base, "Scan")

\* the positions <<b, d>> of the blank and of `.` at which the basename reads
\* <prefix>Scan<N> <F>.<ext>, N and F strings of digits after the last `Scan`
SpaceForms(base) ==
    UNION {
        {<<b, d>> :
            b \in {b \in (LastScan(base) + 1)..(d - 1) :
                      /\ LastScan(base) > 0
                      /\ base[b] = " "
                      /\ AllDigits(base, LastScan(base) + 1, b - 1)
                      /\ AllDigits(base, b + 1, d - 1)}} :
            d \in {d \in 1..(Len(base) - 1) :
                      /\ base[d] = "."
                      /\ \A i \in (d + 1)..Len(base) : base[i] # "."}}

\* the positions d of `.` at which the basename reads <prefix>Scan<N>.<ext>
\* or <prefix>Scan<N> .<ext>: nothing follows the scan number
SingleForms(base) ==
    {d \in 1..(Len(base) - 1) :
        /\ base[d] = "."
        /\ \A i \in (d + 1)..Len(base) : base[i] # "."
        /\ LastScan(base) > 0 /\ LastScan(base) < d
        /\ \/ AllDigits(base, LastScan(base) + 1, d - 1)
           \/ /\ base[d - 1] = " "
              /\ AllDigits(base, LastScan(base) + 1, d - 2)}

SingleNumber(base, d) ==
    IF base[d - 1] = " " THEN SubSeq(base, LastScan(base) + 1, d - 2)
    ELSE SubSeq(base, LastScan(base) + 1, d - 1)

\* C12: for every basename that reads <prefix>Scan<N> <F>.<ext>, N and F
\* strings of digits separated by a blank after the last `Scan`,
\* get_data_file_numbers returns scan = int(N), file = int(F) and repeat =
\* None; when nothing follows the scan number, file stays None.
C12_SpaceNameDecoded ==
    numbers # Pending =>
        LET base == basename(name)
        IN  /\ \A q \in SpaceForms(base) :
                  numbers = Return(Numbers(
                      PyInt(Decimal(SubSeq(base, LastScan(base) + 1, q[1] - 1))),
                      PyInt(Decimal(SubSeq(base, q[1] + 1, q[2] - 1))),
                      PyNone))
            /\ \A d \in SingleForms(base) :
                  numbers = Return(Numbers(
                      PyInt(Decimal(SingleNumber(base, d))), PyNone, PyNone))

-----------------------------------------------------------------------------
(* Properties of the header parser on given data files (SpecFile) *)

\* the number a text of digits with an optional sign denotes
NumberOf(text) ==
    IF text[1] = "-" THEN 0 - Decimal(Tail(text)) ELSE Decimal(text)

\* the text without its blanks
NonBlank(text) == SelectSeq(text, LAMBDA c : c \notin Whitespace)

\* the text after the keyword of the one line of the file that starts with it
ValueAt(file, key) ==
    Tail(file[CHOOSE i \in 1..Len(file) : file[i] # <<>> /\ file[i][1] = key])

\* the file is a `Start, Stop, Increment` line, a motor-name line and the
\* three range lines in some order
IsSingleMotorFile(file) ==
    /\ Len(file) = 5
    /\ file[1] = <<"Start, Stop, Increment">>
    /\ \A key \in {"Start: ", "Stop: ", "Increment: "} :
          \E i \in 3..5 : file[i][1] = key

\* C13: a data-file header made of a `Start, Stop, Increment` line, a
\* motor-name line and the lines `Start: a`, `Stop: b`, `Increment: c` in any
\* order yields scan_type = Single Motor, flying = false, motor_first = [a],
\* motor_last = [b], motor_step = [c] and motors = [the motor name].
C13_SingleMotorHeader ==
    (IsSingleMotorFile(data_file) /\ outcome # Pending) =>
        /\ outcome = Return("header_info")
        /\ warnings = <<>>
        /\ header_info.scan_type = "Single Motor"
        /\ header_info.flying = FALSE
        /\ header_info.motor_first = <<NumberOf(ValueAt(data_file, "Start: "))>>
        /\ header_info.motor_last = <<NumberOf(ValueAt(data_file, "Stop: "))>>
        /\ header_info.motor_step = <<NumberOf(ValueAt(data_file, "Increment: "))>>
        /\ header_info.motors = PyList(<<NonBlank(data_file[2])>>)

\* a header whose range lines come in the order Increment, Stop, Start, with
\* three numbers that are not all equal and blanks around the motor name,
\* has been parsed to its end
C13_Witness ==
    /\ IsSingleMotorFile(data_file)
    /\ outcome = Return("header_info")
    /\ data_file[2] = <<" ", "M", " ">>
    /\ data_file[3][1] = "Increment: " /\ data_file[5][1] = "Start: "
    /\ header_info.motor_first = <<-12>> /\ header_info.motor_last = <<7>>

\* the lines of the file that read `Description Length: <value>`
Announcements(file) ==
    {i \in 1..Len(file) : file[i] # <<>> /\ file[i][1] = "Description Length: "}

\* C17: a `Description Length:` header line with a nonzero value triggers
\* memo capture: the line right after it is stored as memo and is not
\* interpreted as a keyword line or as the boundary between header and
\* data; a `Description Length:` line with value 0 triggers no capture.
C17_MemoCaptured ==
    \A i \in Announcements(data_file) :
        (i < Len(data_file) /\ (data_linenum > i \/ Returned(outcome))) =>
            IF Tail(data_file[i]) # <<"0">>
            THEN /\ header_info.memo = PyStr(RStrip(data_file[i + 1]))
                 /\ header_info.motor_last = <<>>
                 /\ header_info.motor_header_linenum = Absent
            ELSE header_info.memo = Absent

-----------------------------------------------------------------------------
(* Properties of the scan file functions called directly (SpecCalls) *)

\* C15: if a scan file has no recognizable sub-scan at all (no header or
\* data line can be detected, or every sub-scan after the header is empty),
\* get_scan_line_numbers returns NOT-FOUND for every file number; it does
\* not raise.
C15_NoSubscansNotFound ==
    (/\ pc = "line_numbers"
     /\ \/ ~HasHeader(scan_file)
        \/ NumSubscans(scan_file,
                       get_scan_header_line_number(scan_file, ScanPath, FALSE).value) = 0)
        => result = Return(file_number_NOT_FOUND)

\* C16: a header line index of -1 means that no recognizable header is in
\* the scan file.  get_scan_header_line_number with raise_exception=True
\* never returns -1; with raise_exception=False it returns -1 only when no
\* line of the file matches the detection predicate.
C16_MinusOneMeansNoHeader ==
    /\ pc = "header_line_number" => result # Return(-1)
    /\ (pc = "header_line_number_quiet" /\ result = Return(-1))
          => ~HasHeader(scan_file)

\* the line is blank or a comment
Skipped(file_line) == Strip(file_line) = <<>> \/ Strip(file_line)[1] = "#"

\* the line matches the header-detection predicate: it starts with a digit,
\* with `file`, or with `-` and a digit
Matches(file_line) ==
    /\ ~Skipped(file_line)
    /\ \/ file_line[1] \in Digits \cup {"File", "file", "FILE"}
       \/ Len(file_line) >= 2 /\ file_line[1] = "-" /\ file_line[2] \in Digits

\* the position of the first line that matches
FirstMatch(file) ==
    CHOOSE m \in 1..Len(file) :
        Matches(file[m]) /\ \A p \in 1..(m - 1) : ~Matches(file[p])

\* the number of blank and comment lines in a row right before position m
SkippedBefore(file, m) ==
    CHOOSE s \in 0..(m - 1) :
        /\ \A p \in (m - s)..(m - 1) : Skipped(file[p])
        /\ s < m - 1 => ~Skipped(file[m - s - 1])

DeclaresFlying(file) ==
    /\ file # <<>> /\ Len(file[1]) > 2
    /\ file[1][1] \in {"Flying ", "flying "}
    /\ file[1][Len(file[1])] = "("
    /\ NonBlank(SubSeq(file[1], 2, Len(file[1]) - 1)) # <<>>

DeclaredName(file) == NonBlank(SubSeq(file[1], 2, Len(file[1]) - 1))

\* parse_scan_file_lines was called by import_scan_file and is done
Parsed == pc = "done" /\ HasHeader(scan_file) /\ first_line >= 0 /\ last_line >= 0

\* C18 as the specification states it: parse_scan_file_lines applied to a
\* scan file whose first line declares a flying motor always returns a table
\* whose last column name is the declared motor name.
C18_LastColumnIsFlyingMotor ==
    (Parsed /\ DeclaresFlying(scan_file)) =>
        /\ Returned(result)
        /\ result.value.columns[Len(result.value.columns)] = DeclaredName(scan_file)

\* C18 as the code has it: when the header line comes after the first line
\* and a table is returned, its last column name is the declared motor
\* name: a trailing unnamed column of the header row is renamed, and a
\* header row without one keeps its names and gets the motor name as a new
\* last column.
C18_LastColumnAfterHeaderRow ==
    (Parsed /\ DeclaresFlying(scan_file) /\ header_linenum > 0
        /\ Returned(result)) =>
        LET names == Split(scan_file[header_linenum + 1], "\t")
            n == Len(names)
        IN  result.value.columns =
                IF names[n] = <<>>
                THEN SubSeq(names, 1, n - 1) \o <<DeclaredName(scan_file)>>
                ELSE names \o <<DeclaredName(scan_file)>>

\* the repair has happened: a table of one row was returned for a header row
\* without a trailing unnamed column
C18_Witness ==
    /\ Parsed /\ DeclaresFlying(scan_file) /\ header_linenum = 1
    /\ Returned(result)
    /\ scan_file[2] = <<"A">>
    /\ result.value.columns = << <<"A">>, <<"M">> >>
    /\ Len(result.value.rows) = 1

-----------------------------------------------------------------------------
(* Properties of the row messages (SpecRow) *)

\* an argument that gives a number: an int above 0
Given(argument) == argument.t = "int" /\ argument.i > 0

\* the decimal digits of a positive number
RECURSIVE DigitsOf(_)
DigitsOf(n) ==
    IF n = 0 THEN <<>> ELSE DigitsOf(n \div 10) \o <<IndexToken[(n % 10) + 1]>>

DescriptionOf(argument) == IF argument = Absent THEN <<>> ELSE argument.v

\* the message the claim describes
ExpectedMessage(r) ==
    <<"Invalid value or format found in input scan file: ", "'">>
        \o r.scan_file_path \o <<"'">>
        \o (IF Given(r.file_number)
            THEN <<"; file output number: ">> \o DigitsOf(r.file_number.i) ELSE <<>>)
        \o (IF Given(r.step_number)
            THEN <<"; step number ">> \o DigitsOf(r.step_number.i) ELSE <<>>)
        \o <<".">>
        \o (IF DescriptionOf(r.description) = <<>> THEN <<>>
            ELSE <<" ">> \o SelectSeq(DescriptionOf(r.description),
                                      LAMBDA c : c # ".") \o <<".">>)
        \o <<" Check for missing values, spaces instead of tabs, or extra header rows.">>

\* C19: for every combination of arguments the message of ScanFileRowError
\* and ScanFileRowWarning consists, in this order, of the scan file path,
\* the file number if and only if one is given (file_number > 0), the step
\* number if and only if one is given (step_number > 0), a period, the
\* description ended by one period when a description is given, and the
\* hint; error and warning carry the same message; and the construction
\* succeeds when the file number is absent.
C19_RowMessage ==
    pc = "constructed" =>
        /\ (Returned(result.error) /\ Returned(result.warning)) =>
              /\ result.error.value.args.message = ExpectedMessage(row)
              /\ result.warning.value.args.message = ExpectedMessage(row)
        /\ (row.file_number \in {Absent, PyNone} /\ row.step_number.t = "int")
              => Returned(result.error) /\ Returned(result.warning)

-----------------------------------------------------------------------------
(* Properties of the open files (SpecFile, SpecScan, SpecCalls) *)

\* a call has ended: get_data_file_header has returned or raised, or a scan
\* file function has returned or raised
Ended ==
    \/ outcome # Pending
    \/ pc \in {"line_init", "parse", "done", "header_line_number",
               "header_line_number_quiet", "line_numbers"}

\* C22: when a call of get_data_file_header, get_scan_header_line_number,
\* get_scan_line_numbers or is_flying_scan has ended, by a return at the end,
\* a return from inside the loop or an error, also an error raised while the
\* scan file was being processed, no file the call opened is open
C22_HandlesReleased == Ended => handles = {}

\* get_data_file_header has raised an error that reading the scan file gave
\* after the scan file was opened
C22_Witness ==
    /\ Raised(outcome)
    /\ scan_read # NoRead
    /\ Raised(scan_read.imp)
    /\ ~RaisedType(scan_read.imp, "FileNotFoundError")
    /\ handles = {}

-----------------------------------------------------------------------------
(* Properties of the scan file path (SpecFile) *)

\* the line of the data file that names the scan file: the second line
\* after `From File`
WrittenPath == RStrip(data_file[3])

\* the path with every backslash turned into a slash
Slashed(path) ==
    [i \in 1..Len(path) |-> IF path[i] = "\\" THEN "/" ELSE path[i]]

\* the first n pairs of the mapping applied to the path, the first pair
\* first, each to all of what the pairs before it left
RECURSIVE InOrder(_, _, _)
InOrder(path, pairs, n) ==
    IF n = 0 THEN path
    ELSE Replace(InOrder(path, pairs, n - 1), pairs[n][1], pairs[n][2])

\* C23: the scan file is opened at the path that the pairs of
\* subpath_replace_dict, applied one after another in the mapping's order,
\* each to all of the result of the pair before, make of the path stored;
\* with an empty mapping that is the path stored; and
\* HeaderInfo.scan_file_path is the path as the data file has it, its
\* backslashes turned into slashes, not the remapped one
C23_RemappedPathOpened ==
    header_info.scan_file_path # Absent =>
        /\ header_info.scan_file_path = PyStr(Slashed(WrittenPath))
        /\ scan_read # NoRead =>
              /\ local_scan_file_path =
                    PyStr(InOrder(Slashed(WrittenPath), subpath_replace_dict,
                                  Len(subpath_replace_dict)))
              /\ subpath_replace_dict = <<>> =>
                    local_scan_file_path = header_info.scan_file_path
              /\ RaisedType(outcome, "ScanFileNotFoundError") =>
                    PyStr(outcome.error.args.scan_file_path)
                       = local_scan_file_path

\* the scan file was opened at a path in which the second pair has rewritten
\* what the first pair wrote, and the path stored has the slash of the path
\* written with a backslash
C23_Witness ==
    /\ scan_read # NoRead
    /\ ~Raised(scan_read.imp)
    /\ Len(subpath_replace_dict) = 2
    /\ data_file[3] = <<"p", "\\", "s">>
    /\ header_info.scan_file_path = PyStr(<<"p", "/", "s">>)
    /\ local_scan_file_path = PyStr(<<"t", "/", "p", "/", "s">>)

-----------------------------------------------------------------------------
(* Properties of the lines captured after a declaration (SpecFile) *)

\* the line that the step reads
LineRead == data_file[data_linenum + 1]

\* the step reads a line of the data file
ReadsLine == outcome = Pending /\ data_linenum' = data_linenum + 1

\* no line is awaited
NoneAwaited ==
    ~get_motor_name /\ ~get_pause_motor_name /\ ~get_scan_file_path /\ ~get_memo

DeclaresMotor(line) ==
    LineStartsWith(line, "Flying Scan")
        \/ LineStartsWith(line, "Start, Stop, Increment")

\* the line is neither taken for a declaration nor for the end of the header
NotADeclaration ==
    /\ header_info'.scan_type = header_info.scan_type
    /\ header_info'.date = header_info.date
    /\ header_info'.motor_header_linenum = header_info.motor_header_linenum
    /\ ~Returned(outcome')

\* nor for a line of a range
NotAKeywordLine ==
    /\ NotADeclaration
    /\ header_info'.motor_first = header_info.motor_first
    /\ header_info'.motor_last = header_info.motor_last
    /\ header_info'.motor_step = header_info.motor_step

\* C24: a line that follows `Start, Stop, Increment` or `Flying Scan` is
\* appended to motors; the line that follows `From File` becomes pause_motor
\* and the line after it scan_file_path; the line that follows a memo trigger
\* becomes memo; this whatever the line holds, the line is taken for nothing
\* else, the flag is false after it, and a flag becomes true only by the line
\* that triggers it
C24_CapturedByNextLine ==
    [][ReadsLine =>
          /\ get_motor_name =>
                /\ header_info.motors.t = "list"
                /\ header_info'.motors.t = "list"
                /\ header_info'.motors.l
                      = Append(header_info.motors.l, Strip(LineRead))
                /\ ~get_motor_name'
                /\ NotAKeywordLine
          /\ get_pause_motor_name =>
                /\ header_info'.pause_motor = PyStr(Strip(LineRead))
                /\ ~get_pause_motor_name' /\ get_scan_file_path'
                /\ NotAKeywordLine
          /\ (get_scan_file_path /\ ~get_pause_motor_name) =>
                /\ header_info'.scan_file_path
                      = PyStr(Slashed(RStrip(LineRead)))
                /\ ~get_scan_file_path'
                /\ NotADeclaration
          /\ get_memo =>
                /\ header_info'.memo = PyStr(RStrip(LineRead))
                /\ ~get_memo'
                /\ NotAKeywordLine
          /\ get_motor_name' => (NoneAwaited /\ DeclaresMotor(LineRead))
          /\ get_pause_motor_name' =>
                (NoneAwaited /\ LineStartsWith(LineRead, "From File"))
          /\ get_scan_file_path' => get_pause_motor_name
          /\ get_memo' =>
                /\ NoneAwaited
                /\ \/ LineStartsWith(LineRead, "Decription ")
                   \/ is_time_scan' /\ FirstIsDigit(LineRead)
       ]_vars

-----------------------------------------------------------------------------
(* Properties of the lines of numbers in a Time scan (SpecFile) *)

\* the step reads a line that starts with a digit and that no flag awaits
ReadsNumbers == ReadsLine /\ NoneAwaited /\ FirstIsDigit(LineRead)

Fields(line) == SplitBlanks(Strip(line))

\* the first field of the line is an integer of at least 1
AnnouncesMemo(line) ==
    /\ Fields(line) # <<>>
    /\ Returned(int(Fields(line)[1]))
    /\ int(Fields(line)[1]).value >= 1

\* the lines up to index n that start with a digit and are not the memo that
\* the line at index 1 announces
NumberLines(n) ==
    {i \in 1..n :
        /\ i < Len(data_file)
        /\ FirstIsDigit(data_file[i + 1])
        /\ ~(i = 2 /\ AnnouncesMemo(data_file[2]))}

\* the role of the line at index n by its place among the lines of numbers:
\* the memo is left out of the count when the line at index 1 announces it
RoleByOrder(n) ==
    LET k == Cardinality(NumberLines(n))
    IN  IF k >= 2 /\ AnnouncesMemo(data_file[2]) THEN k + 1 ELSE k

\* the role of the line at index n by its index
RoleByIndex(n) == n

ValueErrorRaised == RaisedType(outcome', "ValueError")

\* the step takes the line read in the given role
TakenAs(role) ==
    LET f == Fields(LineRead)
    IN  CASE role = MEMO_LENGTH ->
               /\ is_time_scan' /\ header_info'.scan_type = "Time"
               /\ IF Raised(int(f[1])) THEN ValueErrorRaised
                  ELSE /\ outcome' = Pending
                       /\ get_memo' = (int(f[1]).value - 1 >= 0)
          [] role = MEMO ->
               /\ header_info'.memo = PyStr(RStrip(LineRead))
               /\ ~get_memo' /\ outcome' = Pending
          [] role = SAMPLES ->
               IF Raised(int(f[1])) THEN ValueErrorRaised
               ELSE /\ header_info'.num_samples = PyInt(int(f[1]).value)
                    /\ outcome' = Pending
          [] role = ACQUIRE ->
               IF Len(f) < 5 THEN ValueErrorRaised
               ELSE /\ header_info'.count_sec = PyFloat(float(f[5]).value)
                    /\ outcome' = Pending
          [] OTHER ->
               /\ Returned(outcome')
               /\ header_info'.motor_header_linenum = PyInt(data_linenum - 1)

\* is_time_scan becomes true only by a line of numbers at index 1
ActivatedAtIndex1 ==
    (~is_time_scan /\ is_time_scan') => (ReadsNumbers /\ data_linenum = 1)

\* C25 as the specification states it: a line of numbers at index 1 makes
\* the scan a Time scan, and from then on the lines of numbers are taken by
\* their order among the lines of numbers, as memo length, memo (when none
\* was announced), number of samples and acquire row, whatever other lines
\* lie between them.
C25_RolesByOrder ==
    [][/\ ActivatedAtIndex1
       /\ (ReadsNumbers /\ (is_time_scan \/ data_linenum = 1))
             => TakenAs(RoleByOrder(data_linenum))
      ]_vars

\* C25: a line of numbers at index 1 that no flag awaits makes the scan a
\* Time scan, and from then on a line of numbers that no flag awaits is
\* taken by its index in the file: at index 1 as memo length, at 2 as memo,
\* at 3 as number of samples, at 4 as acquire row, and at any other index as
\* the first line of data.
C25_RolesByIndex ==
    [][/\ ActivatedAtIndex1
       /\ (ReadsNumbers /\ (is_time_scan \/ data_linenum = 1))
             => TakenAs(RoleByIndex(data_linenum))
      ]_vars

\* a blank line before the acquire row: the row is at index 5 and is taken
\* as the first line of data
C25_Witness ==
    /\ Returned(outcome)
    /\ is_time_scan
    /\ Len(data_file) >= 6 /\ data_file[5] = <<>> /\ data_file[6] \in AcquireRows
    /\ header_info.num_samples = PyInt(7)
    /\ header_info.count_sec = Absent
    /\ header_info.motor_header_linenum = PyInt(4)

-----------------------------------------------------------------------------
(* Properties of the end of the header (SpecFile) *)

\* the line of numbers read is one that the Time scan takes
TakenByTimeScan == data_linenum = 1 \/ (is_time_scan /\ data_linenum \in 2..4)

\* the line read is the first line of data
AtBoundary == ReadsNumbers /\ ~TakenByTimeScan

\* the data files that have the lines of the data file before index b, and
\* a line of numbers at index b
AgreeingFiles(b) ==
    {f \in DataFiles :
        /\ Len(f) > b
        /\ SubSeq(f, 1, b) = SubSeq(data_file, 1, b)
        /\ FirstIsDigit(f[b + 1])}

\* the call has returned at a first line of data: every data file that has
\* the same lines before it and a line of numbers in its place gives the
\* same header
SameForAgreeingFiles ==
    (Returned(outcome) /\ header_info.motor_header_linenum # Absent) =>
        \A f \in AgreeingFiles(header_info.motor_header_linenum.i + 1) :
            LET other == get_data_file_header(f, Args, scan_read)
            IN  /\ Returned(other.outcome)
                /\ other.header_info = header_info

\* C26: reading stops at the first line that starts with a digit and that
\* neither a flag awaits nor the Time scan takes; motor_header_linenum is
\* the index of that line less one and no other field changes; the header
\* returned is the same for every data file with the same lines before that
\* line and a line of numbers at its index
C26_BoundaryEndsHeader ==
    [][/\ ReadsLine => (AtBoundary <=> Returned(outcome'))
       /\ (ReadsLine /\ AtBoundary) =>
             header_info' = [header_info EXCEPT
                               !.motor_header_linenum = PyInt(data_linenum - 1)]
      ]_vars
    /\ []SameForAgreeingFiles

\* the call has returned at a first line of data that three data files
\* with the same lines before it have in common or differ in
C26_Witness ==
    /\ Returned(outcome)
    /\ header_info.motor_header_linenum # Absent
    /\ header_info.motor_header_linenum.i = data_linenum - 2
    /\ Cardinality(AgreeingFiles(data_linenum - 1)) >= 3
    /\ \E f \in AgreeingFiles(data_linenum - 1) :
          f[data_linenum] # data_file[data_linenum]

-----------------------------------------------------------------------------
(* Properties of the numbers of a Time scan (SpecFile) *)

\* the step reads the line of numbers at index n of a Time scan
ReadsTimeLine(n) == ReadsNumbers /\ is_time_scan /\ data_linenum = n

\* the step ends the call with a ValueError, and no header is returned
AbortsWithValueError == ValueErrorRaised /\ ~Returned(outcome')

\* C30: in a Time scan the acquire row sets count_sec to its fifth field and
\* delay_sec to the period, its second field, less the count time, and to 0
\* when that is negative: delay_sec is not negative, and is 0 when the count
\* time is the period or more; an acquire row of fewer than five fields, and
\* a memo-length or sample-count row that does not start with an integer,
\* end the call with a ValueError
C30_AcquireRow ==
    [][/\ ReadsTimeLine(ACQUIRE) =>
             LET f == Fields(LineRead)
                 period == float(f[2]).value
                 count == float(f[5]).value
             IN  IF Len(f) < 5 THEN AbortsWithValueError
                 ELSE /\ outcome' = Pending
                      /\ header_info'.count_sec = PyFloat(count)
                      /\ header_info'.delay_sec.f >= 0
                      /\ header_info'.delay_sec =
                            PyFloat(IF count >= period THEN 0 ELSE period - count)
       /\ (ReadsNumbers /\ data_linenum = MEMO_LENGTH
             /\ Raised(int(Fields(LineRead)[1]))) => AbortsWithValueError
       /\ (ReadsTimeLine(SAMPLES) /\ Raised(int(Fields(LineRead)[1])))
             => AbortsWithValueError
      ]_vars

\* the acquire row of a count time above the period has been read
C30_Witness ==
    /\ is_time_scan
    /\ data_linenum = 5
    /\ data_file[5] = <<"0", " ", "2", " ", "0", " ", "0", " ", "7">>
    /\ header_info.count_sec = PyFloat(7)
    /\ header_info.delay_sec = PyFloat(0)

-----------------------------------------------------------------------------
(* Properties of the files open at once (SpecFile) *)

\* the openings of files that the step makes: those of the scan file when
\* the step reads the line that names it
OpeningsOfStep ==
    IF ReadsLine /\ AtScanFilePath /\ ~Raised(get_data_file_numbers(data_file_path))
    THEN ScanFileOpenings(scan_read')
    ELSE <<>>

\* the most files open at once during the step
MostOpenInStep == ThroughBlocks(handles, OpeningsOfStep, 0).most

\* C31 as the specification states it: at no point of get_data_file_header
\* are two files open at once; the data file and the scan file, at each of
\* its openings, are each opened, read and closed before the next is opened.
C31_OneFileAtOnce == [][MostOpenInStep <= 1]_vars

\* C31 as the code has it: the openings of the scan file follow one another,
\* each closed before the next, so no two of them are open at once; but the
\* data file is open all the while, so two files are open at each opening of
\* the scan file, and never more than two.
C31_ScanFileInsideDataFile ==
    [][/\ MostOpenInStep <= 2
       /\ ThroughBlocks(handles \ {DataFile}, OpeningsOfStep, 0).most <= 1
       /\ OpeningsOfStep # <<>> => (DataFile \in handles /\ MostOpenInStep = 2)
      ]_vars

\* the scan file was opened and read to its end, and the data file is
\* still open
C31_Witness ==
    /\ scan_read # NoRead
    /\ Returned(scan_read.imp)
    /\ outcome = Pending
    /\ handles = {DataFile}
    /\ header_info.motor_values # Absent

-----------------------------------------------------------------------------
(* Properties of is_flying_scan in its two modes (SpecCalls) *)

\* both calls of is_flying_scan are done
FlyingCalled == pc = "is_flying_scan"

\* the verdict of a call, in either mode
Verdict(r) == r.outcome.value.flying

\* C32 as the specification states it: is_flying_scan(path) returns True
\* exactly when is_flying_scan(path, return_motor=True) returns (True, name)
\* with the name of the flying motor, and (False, None) otherwise; a
\* file_number argument changes neither result.
C32_SameVerdictInBothModes ==
    FlyingCalled =>
        /\ Returned(result.plain.outcome) <=> Returned(result.motor.outcome)
        /\ Returned(result.plain.outcome) =>
              /\ Verdict(result.plain) <=> Verdict(result.motor)
              /\ Verdict(result.motor) <=> result.motor.outcome.value.name.t = "str"
              /\ ~Verdict(result.motor) => result.motor.outcome.value.name = PyNone
        /\ result.plain.outcome = is_flying_scan(scan_file, ScanPath, FALSE, PyNone)
        /\ result.motor.outcome = is_flying_scan(scan_file, ScanPath, TRUE, PyNone)

-----------------------------------------------------------------------------
(* Properties of the four flags of get_data_file_header (Spec) *)

\* the number of flags that are true
FlagsAwaited ==
    (IF get_motor_name THEN 1 ELSE 0) + (IF get_pause_motor_name THEN 1 ELSE 0)
    + (IF get_scan_file_path THEN 1 ELSE 0) + (IF get_memo THEN 1 ELSE 0)

\* C33: at every step of get_data_file_header at most one of get_motor_name,
\* get_pause_motor_name, get_scan_file_path and get_memo is true, whatever
\* the header lines are, those of a Time scan included.
C33_AtMostOneAwaited == FlagsAwaited <= 1

\* the pause motor's line was read and the scan file path is awaited alone
C33_Witness ==
    /\ get_scan_file_path /\ FlagsAwaited = 1
    /\ header_info.pause_motor = PyStr(<<"M">>)
    /\ outcome = Pending

\* the memo of a Time scan is awaited alone
C33_TimeScanAwaitsMemo == is_time_scan /\ get_memo /\ FlagsAwaited = 1

-----------------------------------------------------------------------------
(* Properties of the header row of read_data_file (SpecFile) *)

\* get_data_file_header returned a header that is no Time scan and records a
\* motor_header_linenum, and read_data_file was called on the same file,
\* whose name does not tell a Time scan either
BothRead ==
    /\ result # Pending
    /\ Returned(outcome)
    /\ ~is_time_scan
    /\ ~StartsWith(basename(data_file_path), "Time")
    /\ header_info.motor_header_linenum # Absent

\* C34 as the specification states it: for a data file that is not a Time
\* scan the header row that read_data_file gives read_table equals the
\* motor_header_linenum that get_data_file_header records, also when a
\* captured line begins with a digit or a line begins with `Time` or `Frame`.
C34_SameHeaderRow ==
    BothRead =>
        /\ Returned(result)
        /\ header_info.motor_header_linenum = PyInt(result.value)

-----------------------------------------------------------------------------
(* Properties of the boolean header fields (SpecFile) *)

\* both lines of a header of the two boolean fields were read
BooleansRead == data_file \in BooleanFiles /\ data_linenum = 2

\* C35 as the specification states it: `Bi-directional: Yes` gives bidirect
\* = true and every other value false, and likewise `Stay at End: Yes` gives
\* stay_at_end = true and `Stay at End: No`, or any other value, false.
C35_BooleansDecodedAlike ==
    BooleansRead =>
        /\ header_info.bidirect = PyBool(data_file[1][2] = "Yes")
        /\ header_info.stay_at_end = PyBool(data_file[2][2] = "Yes")

====
